---- MODULE Spec2Model ----
(***************************************************************************)
(* Model of the pane tree of presto-edit: the Buffer contract              *)
(* (set_focused, close, get_var/set_var, get_path), the Split and Tabbed   *)
(* containers, the leaf panes, the command dispatcher run_command, the     *)
(* status line filled in by render, and the File pane's viewport.          *)
(***************************************************************************)
EXTENDS Integers, Sequences, FiniteSets, TLC

VARIABLES
    root,     \* main: bu, the root Buffer of the pane tree
    status,   \* main: status (path and ft as last written by render)
    fresh,    \* TRUE when render ran after the last command
    start,    \* history: the tree before the first command of trace
    trace,    \* history: the commands run since start
    prev,     \* history: the tree before the last command of trace
    out,      \* history: what the last command returned and whom it called
    file,     \* a File pane on its own: FileBuffer's fields
    phase,    \* position of the host in its frame for that pane
    moves,    \* cursor events delivered since the last update
    look,     \* a call of highlight::get_color: where it stands
    lsp       \* LSPData behind its mutex, the caller of spawn_lsp, its thread

vars == <<root, status, fresh, start, trace, prev, out, file, phase, moves,
          look, lsp>>
treeVars == <<root, status, fresh, start, trace, prev, out>>
fileVars == <<file, phase, moves>>
hostVars == <<look, lsp>>

----------------------------------------------------------------------------
(* Bounds *)

MaxNodes == 4       \* panes in a tree the tree specifications start from
MaxTabs == 3        \* tabs of a Tabbed container in such a tree
MaxCmds == 4        \* commands run from the Empty root (Spec)
MaxCmdsTree == 2    \* commands run from an arbitrary tree (SpecTree)
MaxCloses == 10     \* Close commands run from an arbitrary tree (SpecClose)

----------------------------------------------------------------------------
(* Strings are sequences of characters, Option<String> is a sequence of    *)
(* length 0 (None) or 1 (Some).                                            *)

None == <<>>
Some(v) == <<v>>

VarNames == {"filetype", "ts"}
NoVars == [n \in VarNames |-> None]

FileNames == { <<"a", ".", "t", "x", "t">>, <<"d", "/", "b">> }
HexName == <<"d", ".", "x", "/", "c">>
SetValues == { <<"r", "s">> }

\* str.split(sep).last(): the part after the last occurrence of sep
RECURSIVE LastPart(_, _)
LastPart(s, sep) ==
    IF \E i \in 1..Len(s) : s[i] = sep
    THEN LET i == CHOOSE j \in 1..Len(s) : s[j] = sep
         IN LastPart(SubSeq(s, i + 1, Len(s)), sep)
    ELSE s

\* the value FileBuffer::setup stores under "filetype"
FileTypeOf(filename) == LastPart(LastPart(filename, "/"), ".")

----------------------------------------------------------------------------
(* Panes.  A Buffer is a record: its kind, its local variable map vars and *)
(* the fields of its BufferFuncs implementation.                           *)

EmptyBuffer == [kind |-> "Empty", vars |-> NoVars]
HighlightBuffer == [kind |-> "Highlight", vars |-> NoVars]
LogViewBuffer == [kind |-> "LogView", vars |-> NoVars]

FileBuffer(filename) ==
    [kind |-> "File", filename |-> filename,
     vars |-> [NoVars EXCEPT !["filetype"] = Some(FileTypeOf(filename))]]

HexBuffer(filename) ==
    [kind |-> "Hex", filename |-> filename,
     vars |-> [NoVars EXCEPT !["filetype"] = Some(FileTypeOf(filename))]]

\* Measurement::Percent(pc), pc in hundredths and a multiple of 25, so that
\* pc / 100 is an f32 value
Percent(pc) == [m |-> "Percent", pc |-> pc]
Chars(val) == [m |-> "Chars", val |-> val]
NegChars(val) == [m |-> "NegChars", val |-> val]
Pixels(val) == [m |-> "Pixels", val |-> val]
NegPixels(val) == [m |-> "NegPixels", val |-> val]

\* an f32 holds every integer below 2^24; above, it keeps 24 significant bits
F32Exact == 16777216

\* the distance between the f32 values around n
RECURSIVE F32Step(_, _)
F32Step(n, q) == IF n < F32Exact * q THEN q ELSE F32Step(n, 2 * q)

\* n as f32: the nearest f32 value, the even one of two equally near
ToF32(n) ==
    LET q == F32Step(n, 1)
        lo == (n \div q) * q
        rem == n - lo
    IN IF 2 * rem < q THEN lo
       ELSE IF 2 * rem > q THEN lo + q
       ELSE IF (lo \div q) % 2 = 0 THEN lo ELSE lo + q

\* Measurement::get_value.  Percent: (max as f32 * pc) as usize, the product
\* of two f32 values being rounded to f32 and then truncated; the others in
\* usize, for val * char_size below usize::MAX
get_value(split, max, char_size) ==
    CASE split.m = "Percent" ->
            ToF32(ToF32(max) * (split.pc \div 25)) \div 4
      [] split.m = "Chars" ->
            IF split.val * char_size <= max THEN split.val * char_size ELSE max
      [] split.m = "NegChars" ->
            max - (IF split.val * char_size <= max
                   THEN split.val * char_size ELSE max)
      [] split.m = "Pixels" ->
            IF split.val <= max THEN split.val ELSE max
      [] split.m = "NegPixels" ->
            max - (IF split.val <= max THEN split.val ELSE max)

\* every Split the program builds has split: Measurement::Percent(0.5)
SplitBuffer(a, b, dir, a_active) ==
    [kind |-> "Split", a |-> a, b |-> b, split_dir |-> dir,
     split |-> Percent(50), a_active |-> a_active, vars |-> NoVars]

TabbedBuffer(tabs, active) ==
    [kind |-> "Tabbed", tabs |-> tabs, active |-> active, vars |-> NoVars]

SplitDirs == {"Horizontal", "Vertical"}
LeafKinds == {"File", "Hex", "Empty", "Highlight", "LogView"}

IsLeaf(t) == t.kind \in LeafKinds

\* variant: every leaf counts as empty
is_empty_leaf(t) == t.kind \in LeafKinds

\* BufferFuncs::is_empty: true for EmptyBuffer only
is_empty(t) == t.kind = "Empty"

\* the tab the index active selects (Vec is 0-based)
ActiveTab(t) == t.tabs[t.active + 1]

----------------------------------------------------------------------------
(* set_focused: the result is the return value and the pane afterwards.    *)

\* variant: only the Empty pane gives its slot away
LeafSetFocusedEmptyOnly(t) == t.kind = "Empty"

\* variant: every leaf gives its slot away
LeafSetFocusedAlways(t) == TRUE

\* the set_focused of the leaf panes: File and Hex return false
LeafSetFocused(t) == t.kind \in {"Empty", "Highlight", "LogView"}

RECURSIVE set_focused(_, _)

\* variant: a Split passes the answer of its active child up
set_focused_passing_up(t, child) ==
    CASE t.kind = "Split" ->
           IF t.a_active
           THEN LET r == set_focused(t.a, child)
                IN [ret |-> r.ret,
                    self |-> [t EXCEPT !.a = IF r.ret THEN child ELSE r.self]]
           ELSE LET r == set_focused(t.b, child)
                IN [ret |-> r.ret,
                    self |-> [t EXCEPT !.b = IF r.ret THEN child ELSE r.self]]
      [] t.kind = "Tabbed" ->
           LET r == set_focused(ActiveTab(t), child)
           IN [ret |-> FALSE,
               self |-> [t EXCEPT !.tabs[t.active + 1] =
                                      IF r.ret THEN child ELSE r.self]]
      [] OTHER -> [ret |-> LeafSetFocused(t), self |-> t]

set_focused(t, child) ==
    CASE t.kind = "Split" ->
           IF t.a_active
           THEN LET r == set_focused(t.a, child)
                IN [ret |-> FALSE,
                    self |-> [t EXCEPT !.a = IF r.ret THEN child ELSE r.self]]
           ELSE LET r == set_focused(t.b, child)
                IN [ret |-> FALSE,
                    self |-> [t EXCEPT !.b = IF r.ret THEN child ELSE r.self]]
      [] t.kind = "Tabbed" ->
           LET r == set_focused(ActiveTab(t), child)
           IN [ret |-> FALSE,
               self |-> [t EXCEPT !.tabs[t.active + 1] =
                                      IF r.ret THEN child ELSE r.self]]
      [] OTHER -> [ret |-> LeafSetFocused(t), self |-> t]

----------------------------------------------------------------------------
(* close: the result is the CloseKind (with r for Replace) and the pane    *)
(* afterwards.                                                             *)

RemoveAt(s, i) == SubSeq(s, 1, i - 1) \o SubSeq(s, i + 1, Len(s))

\* variant: the index is left where it was
TabbedActiveKept(active) == active

\* variant: the first tab becomes the active one
TabbedActiveReset(active) == 0

\* the active index after tabs.remove(active)
TabbedActiveAfterRemove(active) == IF active # 0 THEN active - 1 ELSE 0

\* variant: || in place of &&
SplitEitherEmpty(t) == is_empty(t.a) \/ is_empty(t.b)

\* the test of SplitBuffer::close that returns This at once
SplitBothEmpty(t) == is_empty(t.a) /\ is_empty(t.b)

RECURSIVE close(_)

\* variant: This of the active tab is passed up
TabbedCloseChildPassesThis(t, c) ==
    CASE c.ck = "Done" ->
           [ck |-> "Done", self |-> [t EXCEPT !.tabs[t.active + 1] = c.self]]
      [] c.ck = "This" ->
           [ck |-> "This", self |-> [t EXCEPT !.tabs[t.active + 1] = EmptyBuffer]]
      [] c.ck = "Replace" ->
           [ck |-> "Done", self |-> [t EXCEPT !.tabs[t.active + 1] = c.r]]

\* what TabbedBuffer::close does with the CloseKind c of its active tab
TabbedCloseChild(t, c) ==
    CASE c.ck = "Done" ->
           [ck |-> "Done", self |-> [t EXCEPT !.tabs[t.active + 1] = c.self]]
      [] c.ck = "This" ->
           [ck |-> "Done", self |-> [t EXCEPT !.tabs[t.active + 1] = EmptyBuffer]]
      [] c.ck = "Replace" ->
           [ck |-> "Done", self |-> [t EXCEPT !.tabs[t.active + 1] = c.r]]

TabbedClose(t) ==
    IF is_empty(ActiveTab(t))
    THEN LET self2 == [t EXCEPT !.tabs = RemoveAt(t.tabs, t.active + 1),
                                !.active = TabbedActiveAfterRemove(t.active)]
         IN IF Len(self2.tabs) = 0
            THEN [ck |-> "This", self |-> self2]
            ELSE [ck |-> "Done", self |-> self2]
    ELSE TabbedCloseChild(t, close(ActiveTab(t)))

\* variant: what the first child hands up in Replace is dropped
SplitCloseADropsReplace(t, c) ==
    CASE c.ck = "Done" -> [ck |-> "Done", self |-> [t EXCEPT !.a = c.self]]
      [] c.ck = "This" ->
           IF is_empty(c.self)
           THEN [ck |-> "Replace", self |-> [t EXCEPT !.a = c.self], r |-> t.b]
           ELSE [ck |-> "Done", self |-> [t EXCEPT !.a = EmptyBuffer]]
      [] c.ck = "Replace" -> [ck |-> "Done", self |-> [t EXCEPT !.a = EmptyBuffer]]

SplitCloseA(t, c) ==
    CASE c.ck = "Done" -> [ck |-> "Done", self |-> [t EXCEPT !.a = c.self]]
      [] c.ck = "This" ->
           IF is_empty(c.self)
           THEN [ck |-> "Replace", self |-> [t EXCEPT !.a = c.self], r |-> t.b]
           ELSE [ck |-> "Done", self |-> [t EXCEPT !.a = EmptyBuffer]]
      [] c.ck = "Replace" -> [ck |-> "Done", self |-> [t EXCEPT !.a = c.r]]

SplitCloseB(t, c) ==
    CASE c.ck = "Done" -> [ck |-> "Done", self |-> [t EXCEPT !.b = c.self]]
      [] c.ck = "This" ->
           IF is_empty(c.self)
           THEN [ck |-> "Replace", self |-> [t EXCEPT !.b = c.self], r |-> t.a]
           ELSE [ck |-> "Done", self |-> [t EXCEPT !.b = EmptyBuffer]]
      [] c.ck = "Replace" -> [ck |-> "Done", self |-> [t EXCEPT !.b = c.r]]

SplitClose(t) ==
    IF SplitBothEmpty(t)
    THEN [ck |-> "This", self |-> t]
    ELSE IF t.a_active
         THEN SplitCloseA(t, close(t.a))
         ELSE SplitCloseB(t, close(t.b))

\* variant: a File pane answers Done and stays
LeafCloseFileStays(t) ==
    [ck |-> IF t.kind = "File" THEN "Done" ELSE "This", self |-> t]

\* every leaf returns This (File and Hex after notifying the language server)
LeafClose(t) == [ck |-> "This", self |-> t]

close(t) ==
    CASE t.kind = "Tabbed" -> TabbedClose(t)
      [] t.kind = "Split" -> SplitClose(t)
      [] OTHER -> LeafClose(t)

\* variant: a Hex pane does not tell the language server
LeafCloseFileOnly(t) == IF t.kind = "File" THEN <<t.filename>> ELSE <<>>

\* the arguments of the lsp.close_file calls a leaf makes in its close
LeafCloseFile(t) == IF t.kind \in {"File", "Hex"} THEN <<t.filename>> ELSE <<>>

\* the arguments of the lsp.close_file calls made within close(t), in order
RECURSIVE close_file(_)
close_file(t) ==
    CASE t.kind = "Tabbed" ->
           IF is_empty(ActiveTab(t)) THEN <<>> ELSE close_file(ActiveTab(t))
      [] t.kind = "Split" ->
           IF SplitBothEmpty(t) THEN <<>>
           ELSE close_file(IF t.a_active THEN t.a ELSE t.b)
      [] OTHER -> LeafCloseFile(t)

----------------------------------------------------------------------------
(* nav: the result is the return value, the pane afterwards and calls, the *)
(* panes whose nav ran, each named by its path from the pane nav was       *)
(* called on ("a", "b" or a tab index per step).                           *)

NavDirs == {"Up", "Down", "Left", "Right"}

Under(step, calls) == { <<step>> \o p : p \in calls }

\* the same for panes given with the coords they were handed
Below(step, panes) ==
    { [pane |-> <<step>> \o p.pane, coords |-> p.coords] : p \in panes }

\* variant: the axis of the split is not looked at
SplitNavAwayAnyAxis(t, dir) ==
    \/ dir \in {"Down", "Right"} /\ t.a_active
    \/ dir \in {"Up", "Left"} /\ ~t.a_active

\* the arms of SplitBuffer::nav that may move the focus: the direction runs
\* along the split and away from the active child
SplitNavAway(t, dir) ==
    \/ dir = "Down" /\ t.split_dir = "Vertical" /\ t.a_active
    \/ dir = "Up" /\ t.split_dir = "Vertical" /\ ~t.a_active
    \/ dir = "Left" /\ t.split_dir = "Horizontal" /\ ~t.a_active
    \/ dir = "Right" /\ t.split_dir = "Horizontal" /\ t.a_active

\* variant: the focus moves whatever the child answered
SplitNavSwitchAlways(success) == TRUE

\* if !success { self.a_active = !self.a_active }
SplitNavSwitch(success) == ~success

\* variant: a File pane claims the move
LeafNavFileHandles(t) == t.kind = "File"

\* nav of the leaf panes
LeafNav(t) == FALSE

\* nav of TabbedBuffer: false, the tabs are not asked
TabbedNav(t, dir) == [ret |-> FALSE, self |-> t, calls |-> {<<>>}]

RECURSIVE nav(_, _)

SplitNav(t, dir) ==
    LET c == nav(IF t.a_active THEN t.a ELSE t.b, dir)
        step == IF t.a_active THEN "a" ELSE "b"
        kept == IF t.a_active THEN [t EXCEPT !.a = c.self]
                              ELSE [t EXCEPT !.b = c.self]
        calls == {<<>>} \cup Under(step, c.calls)
    IN IF SplitNavAway(t, dir)
       THEN [ret |-> TRUE,
             self |-> IF SplitNavSwitch(c.ret)
                      THEN [kept EXCEPT !.a_active = ~t.a_active]
                      ELSE kept,
             calls |-> calls]
       ELSE [ret |-> c.ret, self |-> kept, calls |-> calls]

nav(t, dir) ==
    CASE t.kind = "Split" -> SplitNav(t, dir)
      [] t.kind = "Tabbed" -> TabbedNav(t, dir)
      [] OTHER -> [ret |-> LeafNav(t), self |-> t, calls |-> {<<>>}]

----------------------------------------------------------------------------
(* Pointer events and the regions panes are drawn in, for Splits and       *)
(* leaves.  A Rect is [x, y, w, h], a Vector [x, y].                       *)

Rect(x, y, w, h) == [x |-> x, y |-> y, w |-> w, h |-> h]

\* the drawer's char size (CliDrawer: one cell)
CharSize == [x |-> 1, y |-> 1]

\* SplitBuffer::update: the sizes handed to the update of the two children
\* (self.char_size is (1, 1) from construction on)
SplitUpdate(t, size) ==
    IF t.split_dir = "Vertical"
    THEN LET split == get_value(t.split, size.y, CharSize.y)
         IN [a |-> [x |-> size.x, y |-> split],
             b |-> [x |-> size.x, y |-> size.y - split - 1]]
    ELSE LET split == get_value(t.split, size.x, CharSize.x)
         IN [a |-> [x |-> split, y |-> size.y],
             b |-> [x |-> size.x - split - 1, y |-> size.y]]

\* draw_conts: the leaves below t, each by its path, with the region it is
\* drawn in when t is drawn in coords
RECURSIVE draw_conts(_, _)
draw_conts(t, coords) ==
    IF t.kind = "Split"
    THEN IF t.split_dir = "Vertical"
         THEN LET split == get_value(t.split, coords.h, CharSize.y)
              IN Below("a", draw_conts(t.a,
                     Rect(coords.x, coords.y, coords.w, split)))
                 \cup
                 Below("b", draw_conts(t.b,
                     Rect(coords.x, coords.y + split + 1,
                          coords.w, coords.h - split - 1)))
         ELSE LET split == get_value(t.split, coords.w, CharSize.x)
              IN Below("a", draw_conts(t.a,
                     Rect(coords.x, coords.y, split, coords.h)))
                 \cup
                 Below("b", draw_conts(t.b,
                     Rect(coords.x + split + 1, coords.y,
                          coords.w - split - 1, coords.h)))
    ELSE {[pane |-> <<>>, coords |-> coords]}

\* event_process of Event::Mouse(pos, btn): the result is the pane
\* afterwards and calls, the leaves the event reached with the coords they
\* were handed
RECURSIVE MouseEvent(_, _, _)

SplitMouseEvent(t, pos, coords) ==
    LET new_coords == IF t.split_dir = "Horizontal"
                      THEN [coords EXCEPT !.w = coords.w \div 2]
                      ELSE [coords EXCEPT !.h = coords.h \div 2]
        a_active == IF t.split_dir = "Horizontal"
                    THEN pos.x < new_coords.x + new_coords.w
                    ELSE pos.y < new_coords.y + new_coords.h
        b_coords == IF t.split_dir = "Horizontal"
                    THEN [new_coords EXCEPT !.x = new_coords.x + new_coords.w]
                    ELSE [new_coords EXCEPT !.y = new_coords.y + new_coords.h]
    IN IF a_active
       THEN LET c == MouseEvent(t.a, pos, new_coords)
            IN [self |-> [t EXCEPT !.a_active = TRUE, !.a = c.self],
                calls |-> Below("a", c.calls)]
       ELSE LET c == MouseEvent(t.b, pos, b_coords)
            IN [self |-> [t EXCEPT !.a_active = FALSE, !.b = c.self],
                calls |-> Below("b", c.calls)]

MouseEvent(t, pos, coords) ==
    IF t.kind = "Split"
    THEN SplitMouseEvent(t, pos, coords)
    ELSE [self |-> t, calls |-> {[pane |-> <<>>, coords |-> coords]}]

----------------------------------------------------------------------------
(* Key, Nav and Save events.  coords only matter to a Mouse event and are  *)
(* left out.  The result of event_process is the pane afterwards, calls,   *)
(* the panes whose event_process ran, and navs, the panes whose nav ran.   *)

Mods(ctrl, alt, shift) == [ctrl |-> ctrl, alt |-> alt, shift |-> shift]
NoMods == Mods(FALSE, FALSE, FALSE)
Ctrl == Mods(TRUE, FALSE, FALSE)

KeyEv(mods, c) == [ev |-> "Key", mods |-> mods, c |-> c]
NavEv(mods, n) == [ev |-> "Nav", mods |-> mods, nav |-> n]
SaveEv == [ev |-> "Save", path |-> None]

\* variant: any event with the Ctrl key down and an arrow
SplitTakesNavAnyMods(ev) ==
    ev.ev = "Nav" /\ ev.mods.ctrl /\ ev.nav \in NavDirs

\* the first four arms of SplitBuffer::event_process: Nav(mods, arrow) with
\* mods == targ, targ being Ctrl alone
SplitTakesNav(ev) ==
    ev.ev = "Nav" /\ ev.mods = Ctrl /\ ev.nav \in NavDirs

RECURSIVE event_process(_, _)

SplitEventProcess(t, ev) ==
    IF SplitTakesNav(ev)
    THEN [self |-> nav(t, ev.nav).self, calls |-> {<<>>},
          navs |-> nav(t, ev.nav).calls]
    ELSE LET c == event_process(IF t.a_active THEN t.a ELSE t.b, ev)
             step == IF t.a_active THEN "a" ELSE "b"
         IN [self |-> IF t.a_active THEN [t EXCEPT !.a = c.self]
                                    ELSE [t EXCEPT !.b = c.self],
             calls |-> {<<>>} \cup Under(step, c.calls),
             navs |-> Under(step, c.navs)]

TabbedEventProcess(t, ev) ==
    LET c == event_process(ActiveTab(t), ev)
    IN [self |-> [t EXCEPT !.tabs[t.active + 1] = c.self],
        calls |-> {<<>>} \cup Under(t.active, c.calls),
        navs |-> Under(t.active, c.navs)]

event_process(t, ev) ==
    CASE t.kind = "Split" -> SplitEventProcess(t, ev)
      [] t.kind = "Tabbed" -> TabbedEventProcess(t, ev)
      [] OTHER -> [self |-> t, calls |-> {<<>>}, navs |-> {}]

----------------------------------------------------------------------------
(* Scoped variables: Buffer::set_var and Buffer::get_var route through     *)
(* focused_child, which only SplitBuffer overrides.                        *)

HasFocusedChild(t) == t.kind = "Split"
focused_child(t) == IF t.a_active THEN t.a ELSE t.b

RECURSIVE set_var(_, _, _)
set_var(t, v, value) ==
    IF HasFocusedChild(t)
    THEN IF t.a_active
         THEN [t EXCEPT !.a = set_var(t.a, v, value)]
         ELSE [t EXCEPT !.b = set_var(t.b, v, value)]
    ELSE [t EXCEPT !.vars[v] = Some(value)]

RECURSIVE get_var(_, _)
get_var(t, v) ==
    IF HasFocusedChild(t)
    THEN LET c == get_var(focused_child(t), v)
         IN IF c # None THEN c ELSE t.vars[v]
    ELSE t.vars[v]

----------------------------------------------------------------------------
(* get_path: the breadcrumb, a string.                                     *)

RECURSIVE get_path(_)
get_path(t) ==
    CASE t.kind = "Split" ->
           <<"S", "p", "l", "i", "t", ">">>
               \o get_path(IF t.a_active THEN t.a ELSE t.b)
      [] t.kind = "Tabbed" ->
           <<"T", "a", "b", "s", ">">> \o get_path(ActiveTab(t))
      [] t.kind = "File" -> <<"F", "i", "l", "e", "[">> \o t.filename \o <<"]">>
      [] t.kind = "Hex" -> <<"H", "e", "x", "[">> \o t.filename \o <<"]">>
      [] t.kind = "Empty" -> <<"E", "m", "p", "t", "y">>
      [] t.kind = "Highlight" -> <<"H", "i", "g", "h", "l", "i", "g", "h", "t">>
      [] t.kind = "LogView" -> <<"L", "o", "g", "V", "i", "e", "w">>

\* format!("{:?}", o) of an Option<String>
DebugFormat(o) ==
    IF o = None THEN <<"N", "o", "n", "e">>
    ELSE <<"S", "o", "m", "e", "(", "\"">> \o o[1] \o <<"\"", ")">>

----------------------------------------------------------------------------
(* The trees the tree specifications start from: every well-formed tree of *)
(* at most MaxNodes panes, over the five leaf kinds.                       *)

Leaves ==
    {EmptyBuffer, HighlightBuffer, LogViewBuffer,
     FileBuffer(<<"a", ".", "t", "x", "t">>), HexBuffer(HexName)}

Min(x, y) == IF x <= y THEN x ELSE y
Max(x, y) == IF x >= y THEN x ELSE y

RECURSIVE TreesOfSize(_), Forests(_, _)

\* the sequences of len trees that have m panes in all
Forests(m, len) ==
    IF len = 0
    THEN IF m = 0 THEN {<<>>} ELSE {}
    ELSE UNION { { <<t>> \o f : t \in TreesOfSize(i),
                                f \in Forests(m - i, len - 1) }
                 : i \in 1..(m - len + 1) }

TreesOfSize(n) ==
    IF n = 1
    THEN Leaves
    ELSE UNION { { SplitBuffer(a, b, d, act) :
                     a \in TreesOfSize(i), b \in TreesOfSize(n - 1 - i),
                     d \in SplitDirs, act \in BOOLEAN }
                 : i \in 1..(n - 2) }
         \cup
         UNION { { TabbedBuffer(f, k) : f \in Forests(n - 1, len),
                                       k \in 0..(len - 1) }
                 : len \in 1..Min(MaxTabs, n - 1) }

Trees == UNION { TreesOfSize(n) : n \in 1..MaxNodes }

\* The trees the specification of single calls starts from: deeper trees,
\* up to MaxDeepNodes panes, over two leaf kinds (one that is empty and
\* gives its slot away, one that is neither).
MaxDeepNodes == 5
MaxDeepCmds == 1

DeepLeaves == {EmptyBuffer, FileBuffer(<<"a", ".", "t", "x", "t">>)}

RECURSIVE DeepTreesOfSize(_), DeepForests(_, _)

DeepForests(m, len) ==
    IF len = 0
    THEN IF m = 0 THEN {<<>>} ELSE {}
    ELSE UNION { { <<t>> \o f : t \in DeepTreesOfSize(i),
                                f \in DeepForests(m - i, len - 1) }
                 : i \in 1..(m - len + 1) }

DeepTreesOfSize(n) ==
    IF n = 1
    THEN DeepLeaves
    ELSE UNION { { SplitBuffer(a, b, d, act) :
                     a \in DeepTreesOfSize(i), b \in DeepTreesOfSize(n - 1 - i),
                     d \in SplitDirs, act \in BOOLEAN }
                 : i \in 1..(n - 2) }
         \cup
         UNION { { TabbedBuffer(f, k) : f \in DeepForests(n - 1, len),
                                       k \in 0..(len - 1) }
                 : len \in 1..Min(MaxTabs, n - 1) }

DeepTrees == UNION { DeepTreesOfSize(n) : n \in 1..MaxDeepNodes }

----------------------------------------------------------------------------
(* Commands (script::Command) as run_command receives them.                *)

CloseCmd == [cmd |-> "Close"]
SplitCmd(kind) == [cmd |-> "Split", kind |-> kind]
OpenCmd(path) == [cmd |-> "Open", path |-> path]
SetCmd(v, value) == [cmd |-> "Set", v |-> v, value |-> value]

SplitKinds == {"Horizontal", "Vertical", "Tabbed"}

\* the pane Command::Split builds before it calls set_focused
SplitAdds(kind) ==
    IF kind = "Tabbed"
    THEN TabbedBuffer(<<EmptyBuffer>>, 0)
    ELSE SplitBuffer(EmptyBuffer, EmptyBuffer, kind, FALSE)

\* if bu.set_focused(&adds) { *bu = adds; }
FocusInto(t, adds) ==
    LET r == set_focused(t, adds) IN IF r.ret THEN adds ELSE r.self

\* match bu.close(lsp) { Replace(r) => *bu = r, This => *bu = Empty, Done => {} }
CloseRoot(t) ==
    LET c == close(t)
    IN CASE c.ck = "Replace" -> c.r
         [] c.ck = "This" -> EmptyBuffer
         [] c.ck = "Done" -> c.self

\* what a command leaves in out: the value the call on the root returned
\* and the calls that were made on the way
NoOut == [ret |-> "none", calls |-> <<>>]
Out(ret, calls) == [ret |-> ret, calls |-> calls]

Record(c) ==
    /\ trace' = Append(trace, c)
    /\ prev' = root
    /\ fresh' = FALSE
    /\ UNCHANGED <<start, status, fileVars, hostVars>>

CmdSplit(kind, cap) ==
    /\ Len(trace) < cap
    /\ root' = FocusInto(root, SplitAdds(kind))
    /\ out' = Out(set_focused(root, SplitAdds(kind)).ret, <<>>)
    /\ Record(SplitCmd(kind))

\* the paths Command::Open passes to lsp.open_file: the path it was given,
\* when its own read of the file succeeded
OpenFile(t, path, ok) == IF ok THEN <<path>> ELSE <<>>

\* Command::Open; ok is the outcome of its read_to_string
CmdOpenRead(path, ok, cap) ==
    /\ Len(trace) < cap
    /\ root' = FocusInto(root, FileBuffer(path))
    /\ out' = Out(set_focused(root, FileBuffer(path)).ret,
                  OpenFile(root, path, ok))
    /\ Record(OpenCmd(path))

\* Command::Open of a file that can be read
CmdOpen(path, cap) == CmdOpenRead(path, TRUE, cap)

CmdClose(cap) ==
    /\ Len(trace) < cap
    /\ root' = CloseRoot(root)
    /\ out' = Out(close(root).ck, close_file(root))
    /\ Record(CloseCmd)

CmdSet(v, value, cap) ==
    /\ Len(trace) < cap
    /\ root' = set_var(root, v, value)
    /\ out' = NoOut
    /\ Record(SetCmd(v, value))

\* a Mouse event that no key binding takes: main hands it to the root with
\* the whole window as coords
MouseCmd(pos, size) == [cmd |-> "Mouse", pos |-> pos, size |-> size]

EvMouse(pos, size, cap) ==
    /\ Len(trace) < cap
    /\ root' = MouseEvent(root, pos, Rect(0, 0, size.x, size.y)).self
    /\ out' = Out("none", MouseEvent(root, pos, Rect(0, 0, size.x, size.y)).calls)
    /\ Record(MouseCmd(pos, size))

\* a Key, Nav or Save event that no key binding takes: main hands it to the
\* root
EventCmd(ev) == [cmd |-> "Event", ev |-> ev]

EvKey(ev, cap) ==
    /\ Len(trace) < cap
    /\ root' = event_process(root, ev).self
    /\ out' = Out(event_process(root, ev).navs, event_process(root, ev).calls)
    /\ Record(EventCmd(ev))

\* Buffer::nav called on the root
NavCmd(dir) == [cmd |-> "Nav", dir |-> dir]

CallNav(dir, cap) ==
    /\ Len(trace) < cap
    /\ root' = nav(root, dir).self
    /\ out' = Out(nav(root, dir).ret, nav(root, dir).calls)
    /\ Record(NavCmd(dir))

\* render: what it leaves in the status line
Render ==
    /\ status' = [path |-> get_path(root),
                  ft |-> DebugFormat(get_var(root, "filetype"))]
    /\ fresh' = TRUE
    /\ UNCHANGED <<root, start, trace, prev, out, fileVars, hostVars>>

----------------------------------------------------------------------------
(* A File pane on its own.  The host delivers the events of a frame, then  *)
(* render calls update(size) and, after drawing, get_cursor(size,          *)
(* char_size); phase.pc is where the host stands, phase.size the size of   *)
(* the frame being rendered.                                               *)

MaxLines == 4       \* lines of the file that is read
MaxRows == 4        \* rows of the window
MaxMoves == 3       \* cursor events delivered within one frame

Widths == {3, 5, 8}
WindowSizes == { [x |-> w, y |-> h] : w \in Widths, h \in 0..MaxRows }
CharSizes == { [x |-> 1, y |-> 1], [x |-> 1, y |-> 2] }

Line(n) == [i \in 1..n |-> "x"]
\* the outcomes of read_to_string(..).lines(): k lines of lengths 1, 2, 0, 1 ...
LinesOf(k) == [i \in 1..k |-> Line(i % 3)]
FileContents == { LinesOf(k) : k \in 0..MaxLines }

\* the FileBuffer that Command::Open creates
NewFile ==
    [cached |-> FALSE, data |-> <<>>, pos |-> [x |-> 0, y |-> 0],
     scroll |-> 0, mode |-> "Normal", height |-> 0,
     char_size |-> [x |-> 0, y |-> 0]]

\* i32::clamp panics when min > max
Clamp(v, lo, hi) == IF v < lo THEN lo ELSE IF v > hi THEN hi ELSE v

\* while self.pos.y - self.scroll < 1 && self.scroll > 0 { self.scroll -= 1 }
RECURSIVE ScrollUp(_, _)
ScrollUp(y, scroll) ==
    IF y - scroll < 1 /\ scroll > 0 THEN ScrollUp(y, scroll - 1) ELSE scroll

\* variant: scroll goes down one line in an update, and no further
ScrollDownOnce(y, scroll, height, len) ==
    IF y - scroll > height - 1 /\ scroll < len THEN scroll + 1 ELSE scroll

\* while self.pos.y - self.scroll > self.height - 1 && self.scroll < len
RECURSIVE ScrollDown(_, _, _, _)
ScrollDown(y, scroll, height, len) ==
    IF y - scroll > height - 1 /\ scroll < len
    THEN ScrollDown(y, scroll + 1, height, len)
    ELSE scroll

\* the first part of update: the content is read once; a failed read gives
\* one empty line
Loaded(f, read) ==
    IF f.cached THEN f
    ELSE [f EXCEPT !.cached = TRUE,
                   !.data = f.data \o (IF read.ok THEN read.lines ELSE << <<>> >>)]

\* update panics in one of its two clamps
UpdatePanics(f, size) ==
    /\ ~(size.x < 4)
    /\ \/ size.x - 6 < 0
       \/ Len(f.data) - 1 < 0

\* the rest of update on a loaded pane, when it does not panic
Adjusted(f, size) ==
    IF size.x < 4 THEN f
    ELSE LET x1 == Clamp(f.pos.x, 0, size.x - 6)
             y1 == Clamp(f.pos.y, 0, Len(f.data) - 1)
             s1 == ScrollUp(y1, f.scroll)
             s2 == ScrollDown(y1, s1, f.height, Len(f.data))
             x2 == IF y1 < Len(f.data)
                   THEN Clamp(x1, 0, Len(f.data[y1 + 1]))
                   ELSE x1
         IN [f EXCEPT !.pos = [x |-> x2, y |-> y1], !.scroll = s2]

\* variant: every update reads the file
ReadsEveryUpdate(f) == 1

\* the calls of read_to_string that update makes
Reads(f) == IF f.cached THEN 0 ELSE 1

ReadOutcomes ==
    { [ok |-> FALSE] } \cup { [ok |-> TRUE, lines |-> c] : c \in FileContents }

\* Command::Open for the pane: it reads the file, for the language server,
\* and builds the pane without a content
FileOpen ==
    /\ phase.pc = "start"
    /\ file' = NewFile
    /\ phase' = [phase EXCEPT !.pc = "events", !.reads = phase.reads + 1]
    /\ UNCHANGED <<moves, treeVars, hostVars>>

FileUpdate(size, read) ==
    /\ phase.pc = "events"
    /\ LET f == Loaded(file, read)
       IN IF UpdatePanics(f, size)
          THEN /\ file' = f
               /\ phase' = [pc |-> "aborted", size |-> size, scroll |-> file.scroll,
                             reads |-> phase.reads + Reads(file)]
          ELSE /\ file' = Adjusted(f, size)
               /\ phase' = [pc |-> "updated", size |-> size, scroll |-> file.scroll,
                             reads |-> phase.reads + Reads(file)]
    /\ moves' = 0
    /\ UNCHANGED <<treeVars, hostVars>>

\* integer division of non-negative i32 values
FileGetCursor(char_size) ==
    /\ phase.pc = "updated"
    /\ file' = [file EXCEPT !.height = phase.size.y \div char_size.y,
                            !.char_size = char_size]
    /\ phase' = [phase EXCEPT !.pc = "events"]
    /\ UNCHANGED <<moves, treeVars, hostVars>>

\* event_process of Nav(no modifiers, Down) and Nav(no modifiers, Up); the
\* row is kept within MaxMoves of the content (an update of a pane narrower
\* than 4 columns does not clamp it)
FileNavDown ==
    /\ phase.pc = "events" /\ moves < MaxMoves
    /\ file.pos.y < MaxLines + MaxMoves
    /\ file' = [file EXCEPT !.pos.y = file.pos.y + 1]
    /\ moves' = moves + 1
    /\ UNCHANGED <<phase, treeVars, hostVars>>

FileNavUp ==
    /\ phase.pc = "events" /\ moves < MaxMoves
    /\ file.pos.y > 0 - MaxMoves
    /\ file' = [file EXCEPT !.pos.y = file.pos.y - 1]
    /\ moves' = moves + 1
    /\ UNCHANGED <<phase, treeVars, hostVars>>

----------------------------------------------------------------------------
(* FileBuffer::event_process.  A line is a String of one-byte characters;  *)
(* an index into self.data or into a line that is out of range (a negative *)
(* i32 cast to usize is out of range) panics.                              *)

MouseEv(pos) == [ev |-> "Mouse", pos |-> pos]

InsertAt(s, i, e) == SubSeq(s, 1, i) \o <<e>> \o SubSeq(s, i + 1, Len(s))

\* self.data[self.pos.y as usize] exists
RowExists(f, y) == 0 <= y /\ y < Len(f.data)

IsInsertNav(f, ev, n) ==
    f.mode = "Insert" /\ ev.ev = "Nav" /\ ev.mods = NoMods /\ ev.nav = n

\* variant: a key is typed into the line in either mode
IsKeyAnyMode(f, ev) == ev.ev = "Key" /\ ev.mods = NoMods

IsInsertKey(f, ev) == f.mode = "Insert" /\ ev.ev = "Key" /\ ev.mods = NoMods

IsMove(ev) == ev.ev = "Nav" /\ ev.mods = NoMods /\ ev.nav \in NavDirs

\* the mode after the event: Escape in Insert mode, the key i in Normal mode
FileModeAfter(f, ev) ==
    CASE IsInsertNav(f, ev, "Escape") -> "Normal"
      [] f.mode = "Normal" /\ ev.ev = "Key" /\ ev.mods = NoMods /\ ev.c = "i" ->
            "Insert"
      [] OTHER -> f.mode

\* the event makes event_process panic; ok is the outcome of File::create
\* and of lsp.save_file in Save(None)
FileEventPanics(f, ev, ok) ==
    CASE IsMove(ev) -> FALSE
      [] IsInsertNav(f, ev, "Enter") ->
            ~(RowExists(f, f.pos.y)
              /\ 0 <= f.pos.x /\ f.pos.x <= Len(f.data[f.pos.y + 1]))
      [] IsInsertNav(f, ev, "BackSpace") ->
            IF f.pos.x > 0
            THEN ~(RowExists(f, f.pos.y)
                   /\ f.pos.x - 1 < Len(f.data[f.pos.y + 1]))
            ELSE f.pos.y > 0 /\ ~RowExists(f, f.pos.y)
      [] IsInsertNav(f, ev, "Escape") -> FALSE
      [] ev.ev = "Save" /\ ev.path = None -> ~ok
      [] IsInsertKey(f, ev) ->
            ~(RowExists(f, f.pos.y)
              /\ 0 <= f.pos.x /\ f.pos.x <= Len(f.data[f.pos.y + 1]))
      [] ev.ev = "Mouse" -> f.char_size.x = 0 \/ f.char_size.y = 0
      [] OTHER -> FALSE

\* variant: Enter leaves the column where it was
FileEnterKeepsColumn(f) ==
    LET y == f.pos.y + 1
        line == f.data[y]
        next == SubSeq(line, f.pos.x + 1, Len(line))
    IN [f EXCEPT !.data = InsertAt([f.data EXCEPT ![y] = SubSeq(line, 1, f.pos.x)],
                                   y, next),
                 !.pos = [x |-> f.pos.x, y |-> f.pos.y + 1]]

\* Insert mode, Enter: the line is split at the cursor
FileEnter(f) ==
    LET y == f.pos.y + 1
        line == f.data[y]
        next == SubSeq(line, f.pos.x + 1, Len(line))
    IN [f EXCEPT !.data = InsertAt([f.data EXCEPT ![y] = SubSeq(line, 1, f.pos.x)],
                                   y, next),
                 !.pos = [x |-> 0, y |-> f.pos.y + 1]]

\* Insert mode, BackSpace: the character before the cursor is removed, or
\* at column 0 the line is joined to the one above
FileBackSpace(f) ==
    LET y == f.pos.y + 1
    IN IF f.pos.x > 0
       THEN [f EXCEPT !.data[y] = RemoveAt(f.data[y], f.pos.x),
                      !.pos.x = f.pos.x - 1]
       ELSE IF f.pos.y > 0
       THEN [f EXCEPT !.data = RemoveAt([f.data EXCEPT ![y - 1] =
                                             f.data[y - 1] \o f.data[y]], y),
                      !.pos = [x |-> Len(f.data[y - 1]), y |-> f.pos.y - 1]]
       ELSE f

\* Insert mode, Key(c): c is inserted at the cursor
FileKey(f, c) ==
    [f EXCEPT !.data[f.pos.y + 1] = InsertAt(f.data[f.pos.y + 1], f.pos.x, c),
              !.pos.x = f.pos.x + 1]

\* event_process, when it does not panic (coords at the origin)
FileEvent(f, ev) ==
    CASE IsMove(ev) ->
            [f EXCEPT !.pos =
                [x |-> f.pos.x + (CASE ev.nav = "Left" -> 0 - 1
                                    [] ev.nav = "Right" -> 1 [] OTHER -> 0),
                 y |-> f.pos.y + (CASE ev.nav = "Up" -> 0 - 1
                                    [] ev.nav = "Down" -> 1 [] OTHER -> 0)]]
      [] IsInsertNav(f, ev, "Enter") -> FileEnter(f)
      [] IsInsertNav(f, ev, "BackSpace") -> FileBackSpace(f)
      [] IsInsertNav(f, ev, "Escape") -> [f EXCEPT !.mode = FileModeAfter(f, ev)]
      [] ev.ev = "Save" /\ ev.path = None -> f
      [] IsInsertKey(f, ev) -> FileKey(f, ev.c)
      [] f.mode = "Normal" /\ ev.ev = "Key" /\ ev.mods = NoMods /\ ev.c = "i" ->
            [f EXCEPT !.mode = FileModeAfter(f, ev)]
      [] ev.ev = "Mouse" ->
            [f EXCEPT !.pos = [x |-> ev.pos.x \div f.char_size.x - 5,
                               y |-> ev.pos.y \div f.char_size.y + f.scroll]]
      [] OTHER -> f

\* one event handed to the pane; trace keeps the events, out.calls the pane
\* before each of them
FileEv(ev, ok, cap) ==
    /\ phase.pc = "events" /\ Len(trace) < cap
    /\ IF FileEventPanics(file, ev, ok)
       THEN /\ file' = file
            /\ phase' = [phase EXCEPT !.pc = "aborted"]
       ELSE /\ file' = FileEvent(file, ev)
            /\ phase' = phase
    /\ trace' = Append(trace, EventCmd(ev))
    /\ out' = Out(file, Append(out.calls, file))
    /\ UNCHANGED <<moves, root, status, fresh, start, prev, hostVars>>

----------------------------------------------------------------------------
(* A Hex pane on its own, in the same frames.  file holds the pane; its    *)
(* data is the sequence of the bytes read, sixteen to a row.               *)

MaxBytes == 17      \* bytes of the file that is read

ByteCounts == {0, 1, 2, MaxBytes}
HexWidths == {3, 5, 24}
HexSizes == { [x |-> w, y |-> h] : w \in HexWidths, h \in {1, MaxRows} }
MaxHexRow == 2      \* the lowest row the events take the cursor to

Bytes(n) == [i \in 1..n |-> i % 256]

NewHex ==
    [cached |-> FALSE, data |-> <<>>, pos |-> [x |-> 0, y |-> 0],
     scroll |-> 0, mode |-> "Normal", height |-> 0,
     char_size |-> [x |-> 0, y |-> 0]]

HexReadOutcomes ==
    { [ok |-> FALSE] } \cup { [ok |-> TRUE, bytes |-> Bytes(n)] : n \in ByteCounts }

\* the first part of update: the bytes are read once; a failed read gives
\* one zero byte
HexLoaded(f, read) ==
    IF f.cached THEN f
    ELSE [f EXCEPT !.cached = TRUE,
                   !.data = IF read.ok THEN read.bytes ELSE <<0>>]

HexUpdatePanics(f, size) ==
    /\ ~(size.x < 4)
    /\ \/ size.x - 6 < 0
       \/ Len(f.data) - 1 < 0

\* the rest of update on a loaded pane, when it does not panic
HexAdjusted(f, size) ==
    IF size.x < 4 THEN f
    ELSE LET x1 == Clamp(f.pos.x, 0, size.x - 6)
             y1 == Clamp(f.pos.y, 0, Len(f.data) - 1)
             s1 == ScrollUp(y1, f.scroll)
             s2 == ScrollDown(y1, s1, f.height, Len(f.data))
             x2 == IF y1 < Len(f.data) THEN Clamp(x1, 0, 15) ELSE x1
         IN [f EXCEPT !.pos = [x |-> x2, y |-> y1], !.scroll = s2]

HexUpdate(size, read) ==
    /\ phase.pc = "events"
    /\ LET f == HexLoaded(file, read)
       IN IF HexUpdatePanics(f, size)
          THEN /\ file' = f
               /\ phase' = [phase EXCEPT !.pc = "aborted", !.size = size,
                                         !.scroll = file.scroll,
                                         !.reads = phase.reads + Reads(file)]
          ELSE /\ file' = HexAdjusted(f, size)
               /\ phase' = [phase EXCEPT !.pc = "updated", !.size = size,
                                         !.scroll = file.scroll,
                                         !.reads = phase.reads + Reads(file)]
    /\ moves' = 0
    /\ UNCHANGED <<treeVars, hostVars>>

\* event_process of Nav(no modifiers, Down / Up / Left / Right); the cursor
\* is kept within one cell of columns 0..15 and of rows 0..MaxHexRow
HexNav(n) ==
    /\ phase.pc = "events" /\ moves < MaxMoves
    /\ LET dx == CASE n = "Left" -> 0 - 1 [] n = "Right" -> 1 [] OTHER -> 0
           dy == CASE n = "Up" -> 0 - 1 [] n = "Down" -> 1 [] OTHER -> 0
       IN /\ file.pos.x + dx \in (0 - 1)..16
          /\ file.pos.y + dy \in (0 - 1)..(MaxHexRow + 1)
          /\ file' = [file EXCEPT !.pos = [x |-> file.pos.x + dx,
                                           y |-> file.pos.y + dy]]
    /\ moves' = moves + 1
    /\ UNCHANGED <<phase, treeVars, hostVars>>

----------------------------------------------------------------------------
(* highlight::get_color, one call of the recursion at a time.  A colour    *)
(* is concrete (Invalid, Base16, Hex) or Link(name); the table maps some   *)
(* of the names to colours.  look.c is the argument of the call that is    *)
(* running, look.depth the calls that are on the stack.                    *)

MaxNames == 3       \* names of the colour table
MaxDepth == 6       \* calls the stack has room for (above MaxNames + 1)

ColorNames == 1..MaxNames
Link(s) == [color |-> "Link", s |-> s]
ConcreteColors == { [color |-> "Invalid"], [color |-> "Hex"] }
Colors == ConcreteColors \cup { Link(s) : s \in ColorNames }

\* the tables: HashMap<String, Color> over the names
ColorTables ==
    UNION { [names -> Colors] : names \in SUBSET ColorNames }

NoLook == [pc |-> "idle"]

\* get_color(map, c) is called
GetColorCall(map, c) ==
    [pc |-> "call", map |-> map, c |-> c, depth |-> 1, token |-> c,
     ret |-> None]

\* the body of get_color for the call that is running: a Link found in the
\* table makes the next call, whose result is returned as it is; a stack
\* with no room for that call ends the program
GetColorBody(l) ==
    IF l.c.color = "Link"
    THEN IF l.c.s \in DOMAIN l.map
         THEN IF l.depth < MaxDepth
              THEN [l EXCEPT !.c = l.map[l.c.s], !.depth = l.depth + 1]
              ELSE [l EXCEPT !.pc = "overflow"]
         ELSE [l EXCEPT !.pc = "returned", !.ret = None]
    ELSE [l EXCEPT !.pc = "returned", !.ret = Some(l.c)]

GetColorStep ==
    /\ look.pc = "call"
    /\ look' = GetColorBody(look)
    /\ UNCHANGED <<treeVars, fileVars, lsp>>

----------------------------------------------------------------------------
(* lsp.rs: LSPData behind Arc<Mutex<..>>, spawn_lsp and the thread it      *)
(* starts.  Every action below is what one of the two threads does while   *)
(* it holds the lock (or between two locks); lsp.wire is what has been     *)
(* written to the server's stdin.  The event queue, which only the read    *)
(* loop and update touch, is left out.                                     *)

MaxLspCalls == 3    \* open_file, save_file and close_file calls of the host

LspFiles == {"a.nim", "b.nim"}

Notification(method, uri) ==
    [kind |-> "notification", method |-> method, id |-> None, uri |-> uri]
Request(id, method, uri) ==
    [kind |-> "request", method |-> method, id |-> Some(id), uri |-> uri]

NoCall == [op |-> "none"]

\* LSPData::new, with `starts` telling whether the program named by cmd can
\* be started, before spawn_lsp is called
NewLsp(starts) ==
    [thread_running |-> FALSE, request_writer |-> None, last_request |-> 0,
     wire |-> <<>>, ids |-> <<>>, ret |-> "Ok", starts |-> starts,
     caller |-> "spawn_lsp", thread |-> "unspawned", spawned |-> "none",
     calls |-> 0, silent |-> FALSE, last |-> NoCall]

\* a host that does not use the language server
NoLsp == [NewLsp(FALSE) EXCEPT !.caller = "idle"]

\* LSPData::run_notification; ok: the write and the flush succeed
run_notification(l, method, uri, ok) ==
    IF l.request_writer # None
    THEN IF ok
         THEN [l EXCEPT !.wire = Append(@, Notification(method, uri)),
                        !.ret = "Ok"]
         ELSE [l EXCEPT !.ret = "Err"]
    ELSE [l EXCEPT !.ret = "Ok"]

RunRequestCountsAlways(l, method, uri, ok) ==
    LET n == [l EXCEPT !.last_request = @ + 1] IN
    IF l.request_writer # None
    THEN IF ok
         THEN [n EXCEPT !.ids = Append(@, l.last_request),
                        !.wire = Append(@, Request(l.last_request, method, uri)),
                        !.ret = "Ok"]
         ELSE [n EXCEPT !.ids = Append(@, l.last_request), !.ret = "Err"]
    ELSE [n EXCEPT !.ret = "Ok"]

\* LSPData::run_request: the id is taken and the counter moved before the
\* write, so a failed write uses up its id
run_request(l, method, uri, ok) ==
    IF l.request_writer # None
    THEN LET n == [l EXCEPT !.last_request = @ + 1,
                            !.ids = Append(@, l.last_request)] IN
         IF ok
         THEN [n EXCEPT !.wire = Append(@, Request(l.last_request, method, uri)),
                        !.ret = "Ok"]
         ELSE [n EXCEPT !.ret = "Err"]
    ELSE [l EXCEPT !.ret = "Ok"]

\* a notification, then (unless `?` returned its error) a request
NotifyThenRequest(l, method, uri, ok1, ok2) ==
    LET n == run_notification(l, method, uri, ok1) IN
    IF n.ret = "Err" THEN n
    ELSE run_request(n, "textDocument/semanticTokens/full", uri, ok2)

\* LSPData::open_file, save_file and close_file
lsp_open_file(l, uri, ok1, ok2) ==
    NotifyThenRequest(l, "textDocument/didOpen", uri, ok1, ok2)

lsp_save_file(l, uri, ok1, ok2) ==
    NotifyThenRequest(l, "textDocument/didChange", uri, ok1, ok2)

lsp_close_file(l, uri, ok1) ==
    run_notification(l, "textDocument/didClose", uri, ok1)

\* the host calls one of the three on the LSPData it has locked
LspCall(op, l) ==
    /\ lsp.caller = "returned"
    /\ lsp.calls < MaxLspCalls
    /\ lsp' = [l EXCEPT !.calls = @ + 1,
                        !.silent = @ \/ lsp.request_writer = None,
                        !.last = [op |-> op,
                                  request_writer |-> lsp.request_writer,
                                  last_request |-> lsp.last_request,
                                  wire |-> lsp.wire, ret |-> l.ret]]
    /\ UNCHANGED <<treeVars, fileVars, look>>

LspOpenFile ==
    \E uri \in LspFiles, ok1, ok2 \in BOOLEAN :
        LspCall("open_file", lsp_open_file(lsp, uri, ok1, ok2))

LspSaveFile ==
    \E uri \in LspFiles, ok1, ok2 \in BOOLEAN :
        LspCall("save_file", lsp_save_file(lsp, uri, ok1, ok2))

LspCloseFile ==
    \E uri \in LspFiles, ok1 \in BOOLEAN :
        LspCall("close_file", lsp_close_file(lsp, uri, ok1))

\* spawn_lsp: thread::spawn
SpawnThread ==
    /\ lsp.caller = "spawn_lsp"
    /\ lsp' = [lsp EXCEPT !.caller = "wait", !.thread = "started"]
    /\ UNCHANGED <<treeVars, fileVars, look>>

\* the condition of the break in the wait loop
WaitOver(l) == l.request_writer # None \/ ~l.thread_running

\* spawn_lsp: one round of the wait loop (sleep, lock, look)
WaitCheck ==
    /\ lsp.caller = "wait"
    /\ lsp' = IF WaitOver(lsp) THEN [lsp EXCEPT !.caller = "initialize"]
              ELSE lsp
    /\ UNCHANGED <<treeVars, fileVars, look>>

\* spawn_lsp: run_request("initialize", ..)?
Initialize ==
    /\ lsp.caller = "initialize"
    /\ \E ok \in BOOLEAN :
         LET l == run_request(lsp, "initialize", None, ok) IN
         lsp' = IF l.ret = "Err"
                THEN [l EXCEPT !.caller = "returned", !.spawned = "Err"]
                ELSE [l EXCEPT !.caller = "initialized"]
    /\ UNCHANGED <<treeVars, fileVars, look>>

\* spawn_lsp: run_notification("initialized", ..)? and Ok(())
Initialized ==
    /\ lsp.caller = "initialized"
    /\ \E ok \in BOOLEAN :
         LET l == run_notification(lsp, "initialized", None, ok) IN
         lsp' = [l EXCEPT !.caller = "returned", !.spawned = l.ret]
    /\ UNCHANGED <<treeVars, fileVars, look>>

\* the thread: thread_running = true
ThreadStart ==
    /\ lsp.thread = "started"
    /\ lsp' = [lsp EXCEPT !.thread_running = TRUE, !.thread = "launch"]
    /\ UNCHANGED <<treeVars, fileVars, look>>

\* lsp_background: Command::new(cmd)...spawn().unwrap(); the panic of the
\* unwrap ends the thread where it stands, the lock not held
ThreadLaunch ==
    /\ lsp.thread = "launch"
    /\ lsp' = [lsp EXCEPT !.thread = IF lsp.starts THEN "publish"
                                     ELSE "panicked"]
    /\ UNCHANGED <<treeVars, fileVars, look>>

\* lsp_background: request_writer = Some(stdin)
ThreadPublish ==
    /\ lsp.thread = "publish"
    /\ lsp' = [lsp EXCEPT !.request_writer = Some("stdin"),
                          !.thread = "reading"]
    /\ UNCHANGED <<treeVars, fileVars, look>>

\* lsp_background: the read loop has no exit but the panic of one of its
\* unwraps (a read that fails, output that is no JSON)
ThreadReadPanics ==
    /\ lsp.thread = "reading"
    /\ lsp' = [lsp EXCEPT !.thread = "panicked"]
    /\ UNCHANGED <<treeVars, fileVars, look>>

CallerStep == SpawnThread \/ WaitCheck \/ Initialize \/ Initialized
ThreadStep == ThreadStart \/ ThreadLaunch \/ ThreadPublish

HostInit == look = NoLook /\ lsp = NoLsp

----------------------------------------------------------------------------
(* Specifications of the pane tree.                                        *)

\* before Command::Open runs for the pane: no read yet (file holds the pane
\* that Open is going to build)
FileInit ==
    /\ file = NewFile
    /\ phase = [pc |-> "start", size |-> [x |-> 0, y |-> 0], scroll |-> 0,
                reads |-> 0]
    /\ moves = 0

TreeInit(t) ==
    /\ root = t
    /\ start = t
    /\ prev = t
    /\ trace = <<>>
    /\ status = [path |-> <<>>, ft |-> <<>>]
    /\ fresh = FALSE
    /\ out = NoOut
    /\ FileInit
    /\ HostInit

\* the editor as main starts it: an Empty root
Init == TreeInit(EmptyBuffer)

Next ==
    \/ \E kind \in SplitKinds : CmdSplit(kind, MaxCmds)
    \/ \E path \in FileNames : CmdOpen(path, MaxCmds)
    \/ CmdClose(MaxCmds)
    \/ \E v \in VarNames, value \in SetValues : CmdSet(v, value, MaxCmds)
    \/ Render

Spec == Init /\ [][Next]_vars

\* the commands that reshape the tree, from any well-formed tree
InitTree == \E t \in Trees : TreeInit(t)

NextTree ==
    \/ \E kind \in SplitKinds : CmdSplit(kind, MaxCmdsTree)
    \/ CmdOpen(<<"a", ".", "t", "x", "t">>, MaxCmdsTree)
    \/ CmdClose(MaxCmdsTree)

SpecTree == InitTree /\ [][NextTree]_vars

\* one call (a command or Buffer::nav) on the root of any deeper tree
InitDeep == \E t \in DeepTrees : TreeInit(t)

NextDeep ==
    \/ \E kind \in SplitKinds : CmdSplit(kind, MaxDeepCmds)
    \/ CmdOpen(<<"d", "/", "b">>, MaxDeepCmds)
    \/ CmdClose(MaxDeepCmds)
    \/ \E dir \in NavDirs : CallNav(dir, MaxDeepCmds)

SpecDeep == InitDeep /\ [][NextDeep]_vars

\* Mouse events on nested Splits in a window of MinSpan..MaxSpan cells each
\* way (from MinSpan on, no pane below MaxSplits Splits gets a negative size)
MaxSplits == 2
MaxSpan == 5
MaxMouse == 1
MinSpan == 3

MouseSizes == { [x |-> w, y |-> h] : w, h \in MinSpan..MaxSpan }
PointsIn(size) == { [x |-> i, y |-> j] : i \in 0..(size.x - 1), j \in 0..(size.y - 1) }

RECURSIVE SplitTrees(_)
SplitTrees(n) ==
    IF n = 0
    THEN DeepLeaves
    ELSE UNION { { SplitBuffer(a, b, d, act) :
                     a \in SplitTrees(i), b \in SplitTrees(n - 1 - i),
                     d \in SplitDirs, act \in BOOLEAN }
                 : i \in 0..(n - 1) }

InitMouse == \E n \in 0..MaxSplits : \E t \in SplitTrees(n) : TreeInit(t)

NextMouse ==
    \E size \in MouseSizes : \E pos \in PointsIn(size) : EvMouse(pos, size, MaxMouse)

SpecMouse == InitMouse /\ [][NextMouse]_vars

\* one Key, Nav or Save event on the root of any deeper tree
MaxEvents == 1

Events ==
    { NavEv(m, n) : m \in {NoMods, Ctrl, Mods(TRUE, FALSE, TRUE)}, n \in NavDirs }
        \cup { NavEv(Ctrl, "Enter"), KeyEv(NoMods, "a"), SaveEv }

NextEvent == \E ev \in Events : EvKey(ev, MaxEvents)

SpecEvent == InitDeep /\ [][NextEvent]_vars

\* one call of Measurement::get_value
MaxVal == 3         \* the val of a Chars, NegChars, Pixels or NegPixels
MaxCalls == 1

Measurements ==
    { Percent(pc) : pc \in {0, 25, 50, 75, 100} }
        \cup { Chars(v) : v \in 0..MaxVal } \cup { NegChars(v) : v \in 0..MaxVal }
        \cup { Pixels(v) : v \in 0..MaxVal } \cup { NegPixels(v) : v \in 0..MaxVal }

\* the spans of a window, and two spans that are not f32 values
Spans == 0..MaxSpan \cup {F32Exact + 3, 2 * F32Exact + 2}

GetValueCmd(m, max, char_size) ==
    [cmd |-> "get_value", m |-> m, max |-> max, char_size |-> char_size]

CallGetValue(m, max, char_size, cap) ==
    /\ Len(trace) < cap
    /\ out' = Out(get_value(m, max, char_size), <<>>)
    /\ root' = root
    /\ Record(GetValueCmd(m, max, char_size))

\* SplitBuffer::update and the draw of the same frame, on a Split the
\* program builds
UpdateCmd(t, size) == [cmd |-> "update", t |-> t, size |-> size]

CallUpdate(t, size, cap) ==
    /\ Len(trace) < cap
    /\ out' = Out(SplitUpdate(t, size),
                  draw_conts(t, Rect(0, 0, size.x, size.y)))
    /\ root' = root
    /\ Record(UpdateCmd(t, size))

NextLayout ==
    \/ \E dir \in SplitDirs, a_active \in BOOLEAN, w, h \in 0..MaxSpan :
           CallUpdate(SplitBuffer(EmptyBuffer, EmptyBuffer, dir, a_active),
                      [x |-> w, y |-> h], MaxCalls)
    \/ \E m \in Measurements, max \in Spans, char_size \in {1, 2} :
           CallGetValue(m, max, char_size, MaxCalls)

SpecLayout == Init /\ [][NextLayout]_vars

\* the events of a loaded File pane, from any cursor and either mode
MaxEdits == 2

EditContents ==
    { << <<>> >>, << <<"a", "b">>, <<"c">> >>, << <<"a">>, <<>>, <<"b", "c">> >> }

EditEvents ==
    { NavEv(NoMods, n) : n \in NavDirs \cup {"Enter", "BackSpace", "Escape"} }
        \cup { NavEv(Ctrl, "Enter"), KeyEv(NoMods, "i"), KeyEv(NoMods, "x"),
               KeyEv(Mods(FALSE, FALSE, TRUE), "i"), SaveEv,
               MouseEv([x |-> 6, y |-> 1]) }

InitEdit ==
    /\ root = EmptyBuffer /\ start = EmptyBuffer /\ prev = EmptyBuffer
    /\ trace = <<>> /\ status = [path |-> <<>>, ft |-> <<>>]
    /\ fresh = FALSE /\ out = NoOut
    /\ \E data \in EditContents, x, y \in (0 - 1)..2, mode \in {"Normal", "Insert"} :
           file = [NewFile EXCEPT !.cached = TRUE, !.data = data,
                                  !.pos = [x |-> x, y |-> y], !.mode = mode,
                                  !.height = MaxRows, !.char_size = CharSize]
    /\ phase = [pc |-> "events", size |-> [x |-> 8, y |-> MaxRows], scroll |-> 0,
                reads |-> 2]
    /\ moves = 0
    /\ HostInit

NextEdit == \E ev \in EditEvents, ok \in BOOLEAN : FileEv(ev, ok, MaxEdits)

SpecEdit == InitEdit /\ [][NextEdit]_vars

\* one File pane, as the root of the tree, through the frames of the host
NextFile ==
    \/ FileOpen
    \/ \E size \in WindowSizes, read \in ReadOutcomes : FileUpdate(size, read)
    \/ \E char_size \in CharSizes : FileGetCursor(char_size)
    \/ FileNavDown
    \/ FileNavUp

SpecFile == Init /\ [][NextFile]_vars

\* one Hex pane through the frames of the host
InitHex ==
    /\ root = EmptyBuffer /\ start = EmptyBuffer /\ prev = EmptyBuffer
    /\ trace = <<>> /\ status = [path |-> <<>>, ft |-> <<>>]
    /\ fresh = FALSE /\ out = NoOut
    /\ file = NewHex
    /\ phase = [pc |-> "events", size |-> [x |-> 0, y |-> 0], scroll |-> 0,
                reads |-> 0]
    /\ moves = 0
    /\ HostInit

NextHex ==
    \/ \E size \in HexSizes, read \in HexReadOutcomes : HexUpdate(size, read)
    \/ \E char_size \in CharSizes : FileGetCursor(char_size)
    \/ \E n \in NavDirs : HexNav(n)

SpecHex == InitHex /\ [][NextHex]_vars

\* one Open command on any deeper tree, the file readable or not
MaxOpens == 1

NextOpen ==
    \E path \in {<<"a", ".", "t", "x", "t">>, <<"d", "/", "b">>}, ok \in BOOLEAN :
        CmdOpenRead(path, ok, MaxOpens)

SpecOpen == InitDeep /\ [][NextOpen]_vars

\* one call of get_color, for any table and any colour, run to its end
InitColor ==
    /\ root = EmptyBuffer /\ start = EmptyBuffer /\ prev = EmptyBuffer
    /\ trace = <<>> /\ status = [path |-> <<>>, ft |-> <<>>]
    /\ fresh = FALSE /\ out = NoOut
    /\ FileInit
    /\ \E map \in ColorTables, c \in Colors :
           look = GetColorCall(map, c)
    /\ lsp = NoLsp

NextColor == GetColorStep

SpecColor == InitColor /\ [][NextColor]_vars /\ WF_vars(NextColor)

\* spawn_lsp with its thread, for a server that starts and one that does
\* not, then the host's calls; both threads are scheduled again and again
InitLsp ==
    /\ root = EmptyBuffer /\ start = EmptyBuffer /\ prev = EmptyBuffer
    /\ trace = <<>> /\ status = [path |-> <<>>, ft |-> <<>>]
    /\ fresh = FALSE /\ out = NoOut
    /\ FileInit
    /\ look = NoLook
    /\ \E starts \in BOOLEAN : lsp = NewLsp(starts)

NextLsp ==
    \/ SpawnThread
    \/ WaitCheck
    \/ Initialize
    \/ Initialized
    \/ ThreadStart
    \/ ThreadLaunch
    \/ ThreadPublish
    \/ ThreadReadPanics
    \/ LspOpenFile
    \/ LspSaveFile
    \/ LspCloseFile

SpecLsp ==
    InitLsp /\ [][NextLsp]_vars /\ WF_vars(CallerStep) /\ WF_vars(ThreadStep)

\* Close after Close from any well-formed tree; the host runs every Close
\* it is given
NextClose == CmdClose(MaxCloses)

SpecClose == InitTree /\ [][NextClose]_vars /\ WF_vars(NextClose)

----------------------------------------------------------------------------
(* The notions the claims are stated with: focus by active pointers, as    *)
(* the specification defines it (through Split and Tabbed alike).          *)

RECURSIVE WellFormed(_)
WellFormed(t) ==
    CASE t.kind = "Split" -> WellFormed(t.a) /\ WellFormed(t.b)
      [] t.kind = "Tabbed" ->
           /\ Len(t.tabs) >= 1
           /\ t.active \in 0..(Len(t.tabs) - 1)
           /\ \A i \in 1..Len(t.tabs) : WellFormed(t.tabs[i])
      [] OTHER -> IsLeaf(t)

RECURSIVE FocusedLeaf(_)
FocusedLeaf(t) ==
    CASE t.kind = "Split" -> FocusedLeaf(IF t.a_active THEN t.a ELSE t.b)
      [] t.kind = "Tabbed" -> FocusedLeaf(ActiveTab(t))
      [] OTHER -> t

\* t with its focused leaf replaced by x
RECURSIVE ReplaceFocusedLeaf(_, _)
ReplaceFocusedLeaf(t, x) ==
    CASE t.kind = "Split" ->
           IF t.a_active
           THEN [t EXCEPT !.a = ReplaceFocusedLeaf(t.a, x)]
           ELSE [t EXCEPT !.b = ReplaceFocusedLeaf(t.b, x)]
      [] t.kind = "Tabbed" ->
           [t EXCEPT !.tabs[t.active + 1] = ReplaceFocusedLeaf(ActiveTab(t), x)]
      [] OTHER -> x

\* no Split or Tabbed pane of t has an entry in its own local map
RECURSIVE ContainersHaveNoVars(_)
ContainersHaveNoVars(t) ==
    CASE t.kind = "Split" ->
           /\ t.vars = NoVars
           /\ ContainersHaveNoVars(t.a) /\ ContainersHaveNoVars(t.b)
      [] t.kind = "Tabbed" ->
           /\ t.vars = NoVars
           /\ \A i \in 1..Len(t.tabs) : ContainersHaveNoVars(t.tabs[i])
      [] OTHER -> TRUE

LastCmd == trace[Len(trace)]
AFile == <<"a", ".", "t", "x", "t">>
FileA == FileBuffer(AFile)

\* the pane a Split or Open command hands to set_focused
AddsOf(c) == IF c.cmd = "Split" THEN SplitAdds(c.kind) ELSE FileBuffer(c.path)

----------------------------------------------------------------------------
(* C1: whatever Close commands were run from a well-formed tree, the tree  *)
(* is well formed (every Tabbed pane has at least one tab and an active    *)
(* index below its number of tabs) and following the active pointers from  *)
(* the root ends in one leaf.                                              *)
C1_CloseKeepsTreeWellFormed ==
    WellFormed(root) /\ IsLeaf(FocusedLeaf(root))

\* a Close took the last tab, an Empty one, out of a Tabbed root
C1_Witness ==
    /\ Len(trace) >= 1
    /\ prev.kind = "Tabbed" /\ prev.active >= 1
    /\ prev.active = Len(prev.tabs) - 1
    /\ root.kind = "Tabbed" /\ Len(root.tabs) = Len(prev.tabs) - 1

(* C10: from any tree, Close after Close ends in a single Empty leaf and   *)
(* every further Close leaves it so.                                       *)
C10_ClosesEndInEmpty == <>[](root = EmptyBuffer)

\* Close was still run after a container had been reduced to Empty
C10_Witness ==
    /\ ~IsLeaf(start)
    /\ Len(trace) >= 2
    /\ prev = EmptyBuffer /\ root = EmptyBuffer

----------------------------------------------------------------------------
(* C2 as claimed: Split(Horizontal) and then Close, run on any tree P,     *)
(* give back P.                                                            *)
C2_SplitCloseIsIdentity ==
    trace = <<SplitCmd("Horizontal"), CloseCmd>> => root = start

(* C2 as the code has it: Split(Horizontal) and then Close give P with its *)
(* focused leaf replaced by a fresh Empty pane, so P itself exactly when   *)
(* the focused leaf of P is an Empty pane without variables.               *)
C2_SplitCloseEmptiesFocus ==
    trace = <<SplitCmd("Horizontal"), CloseCmd>> =>
        /\ root = ReplaceFocusedLeaf(start, EmptyBuffer)
        /\ (root = start <=> FocusedLeaf(start) = EmptyBuffer)

\* the pair was run on a tree whose focused File sits below two containers
C2_Witness ==
    /\ trace = <<SplitCmd("Horizontal"), CloseCmd>>
    /\ start.kind = "Split" /\ start.a_active /\ start.a.kind = "Tabbed"
    /\ FocusedLeaf(start).kind = "File"
    /\ root # start

(* C3 as claimed: from the Empty root, Open(a.txt) gives File[a.txt], then *)
(* Split(Vertical) gives Split{File[a.txt], Empty} with the Empty child    *)
(* active, then Close gives File[a.txt] again.                             *)
C3_OpenSplitClose ==
    /\ (start = EmptyBuffer /\ trace = <<OpenCmd(AFile)>>) => root = FileA
    /\ (start = EmptyBuffer
          /\ trace = <<OpenCmd(AFile), SplitCmd("Vertical")>>) =>
           root = SplitBuffer(FileA, EmptyBuffer, "Vertical", FALSE)
    /\ (start = EmptyBuffer
          /\ trace = <<OpenCmd(AFile), SplitCmd("Vertical"), CloseCmd>>) =>
           root = FileA

(* C3 as the code has it: Open(a.txt) gives File[a.txt]; Split(Vertical)   *)
(* leaves the root File[a.txt], since a File pane refuses set_focused; the *)
(* Close then closes the file and the root is the Empty pane.              *)
C3_OpenSplitCloseEndsEmpty ==
    /\ (start = EmptyBuffer /\ trace = <<OpenCmd(AFile)>>) => root = FileA
    /\ (start = EmptyBuffer
          /\ trace = <<OpenCmd(AFile), SplitCmd("Vertical")>>) => root = FileA
    /\ (start = EmptyBuffer
          /\ trace = <<OpenCmd(AFile), SplitCmd("Vertical"), CloseCmd>>) =>
           root = EmptyBuffer

C3_Witness ==
    /\ start = EmptyBuffer
    /\ trace = <<OpenCmd(AFile), SplitCmd("Vertical"), CloseCmd>>
    /\ prev = FileA

(* C4 as claimed: one Close on a Tabbed pane whose active tab i is not     *)
(* empty removes that tab and leaves the active index at max(i-1, 0).      *)
C4_CloseRemovesTab ==
    (trace = <<CloseCmd>> /\ start.kind = "Tabbed"
       /\ ~is_empty(ActiveTab(start))) =>
        /\ root.kind = "Tabbed"
        /\ root.tabs = RemoveAt(start.tabs, start.active + 1)
        /\ root.active = Max(start.active - 1, 0)

(* C4 as the code has it: on a Tabbed pane whose active tab i is not empty *)
(* one Close removes no tab and leaves the active index at i (a leaf in    *)
(* that tab is replaced by an Empty pane); with a non-empty leaf in tab i  *)
(* and at least two tabs, the second Close removes the tab and leaves the  *)
(* active index at max(i-1, 0), below the number of tabs.                  *)
C4_SecondCloseRemovesTab ==
    /\ (trace = <<CloseCmd>> /\ start.kind = "Tabbed"
          /\ ~is_empty(ActiveTab(start))) =>
           /\ root.kind = "Tabbed"
           /\ Len(root.tabs) = Len(start.tabs)
           /\ root.active = start.active
           /\ IsLeaf(ActiveTab(start)) =>
                  root = [start EXCEPT !.tabs[start.active + 1] = EmptyBuffer]
    /\ (trace = <<CloseCmd, CloseCmd>> /\ start.kind = "Tabbed"
          /\ Len(start.tabs) >= 2
          /\ IsLeaf(ActiveTab(start)) /\ ~is_empty(ActiveTab(start))) =>
           /\ root = [start EXCEPT
                        !.tabs = RemoveAt(start.tabs, start.active + 1),
                        !.active = Max(start.active - 1, 0)]
           /\ root.active < Len(root.tabs)

\* three tabs, the middle one active and not empty, two Closes later
C4_Witness ==
    /\ trace = <<CloseCmd, CloseCmd>>
    /\ start.kind = "Tabbed" /\ Len(start.tabs) = 3 /\ start.active = 1
    /\ start.tabs[1].kind = "File" /\ start.tabs[2].kind = "Hex"
    /\ start.tabs[3].kind = "LogView"
    /\ root.tabs = <<start.tabs[1], start.tabs[3]>> /\ root.active = 0

(* C5 as claimed: set_focused on a leaf of any kind returns true, so a     *)
(* root leaf is replaced by the candidate, and whenever a Split or Open    *)
(* command runs the tree afterwards is the old tree with its focused leaf  *)
(* replaced by the candidate.                                              *)
C5_LeafAlwaysReplaced ==
    (Len(trace) >= 1 /\ LastCmd.cmd \in {"Split", "Open"}) =>
        /\ IsLeaf(prev) => root = AddsOf(LastCmd)
        /\ root = ReplaceFocusedLeaf(prev, AddsOf(LastCmd))

(* C5 as the code has it: set_focused returns true on an Empty, Palette or *)
(* Log leaf and false on a File or Hex leaf; a Split or Open command       *)
(* replaces the focused leaf by the candidate when that leaf is Empty,     *)
(* Palette or Log and leaves the whole tree unchanged when it is File or   *)
(* Hex.                                                                    *)
C5_LeafReplacedUnlessFile ==
    (Len(trace) >= 1 /\ LastCmd.cmd \in {"Split", "Open"}) =>
        IF FocusedLeaf(prev).kind \in {"Empty", "Highlight", "LogView"}
        THEN /\ root = ReplaceFocusedLeaf(prev, AddsOf(LastCmd))
             /\ IsLeaf(prev) => root = AddsOf(LastCmd)
        ELSE root = prev

\* a Palette leaf below a Tabbed pane was replaced by an opened file
C5_Witness ==
    /\ Len(trace) = 1 /\ LastCmd = OpenCmd(AFile)
    /\ prev.kind = "Tabbed" /\ prev.active = 1
    /\ ActiveTab(prev).kind = "Highlight"
    /\ ActiveTab(root) = FileA

----------------------------------------------------------------------------
(* C6: the Set command stores the value in the local map of the focused    *)
(* leaf, reached through Split and Tabbed panes alike, and no Split or     *)
(* Tabbed pane ever has an entry of its own.                               *)
C6_SetLandsOnFocusedLeaf ==
    /\ ContainersHaveNoVars(root)
    /\ (Len(trace) >= 1 /\ LastCmd.cmd = "Set") =>
           root = ReplaceFocusedLeaf(prev,
                     [FocusedLeaf(prev) EXCEPT
                         !.vars[LastCmd.v] = Some(LastCmd.value)])

(* C7: get_var on a Split root gives the focused leaf's value when that    *)
(* leaf has the variable and the root's own entry otherwise.               *)
C7_GetVarOnSplitRoot ==
    root.kind = "Split" =>
        \A v \in VarNames :
            get_var(root, v) =
                IF FocusedLeaf(root).vars[v] # None
                THEN FocusedLeaf(root).vars[v]
                ELSE root.vars[v]

(* C8: after a render the status line shows the filetype variable of the   *)
(* focused leaf and the breadcrumb of the tree.                            *)
C8_StatusShowsFocusedLeaf ==
    fresh =>
        /\ status.ft = DebugFormat(FocusedLeaf(root).vars["filetype"])
        /\ status.path = get_path(root)

----------------------------------------------------------------------------
(* C9: after every update of a File pane, whatever vertical moves came     *)
(* before, the cursor row minus scroll lies in 1..height-1, or scroll is 0.*)
C9_ScrollInBounds ==
    phase.pc = "updated" =>
        \/ /\ 1 <= file.pos.y - file.scroll
           /\ file.pos.y - file.scroll <= file.height - 1
        \/ file.scroll = 0

----------------------------------------------------------------------------
(* Notions for the claims about single calls.                              *)

NavRan == Len(trace) >= 1 /\ LastCmd.cmd = "Nav"
CloseRan == Len(trace) >= 1 /\ LastCmd.cmd = "Close"
FocusRan == Len(trace) >= 1 /\ LastCmd.cmd \in {"Split", "Open"}

ActiveStep(t) == IF t.a_active THEN "a" ELSE "b"
ActiveChild(t) == IF t.a_active THEN t.a ELSE t.b
InactiveChild(t) == IF t.a_active THEN t.b ELSE t.a

\* the direction runs across the axis of the split
OffAxis(t, dir) ==
    \/ t.split_dir = "Horizontal" /\ dir \in {"Up", "Down"}
    \/ t.split_dir = "Vertical" /\ dir \in {"Left", "Right"}

\* the direction runs along the axis of the split and away from its active
\* child, as the specification words it
AlongAndAway(t, dir) ==
    \/ t.split_dir = "Vertical" /\ dir = "Down" /\ t.a_active
    \/ t.split_dir = "Vertical" /\ dir = "Up" /\ ~t.a_active
    \/ t.split_dir = "Horizontal" /\ dir = "Right" /\ t.a_active
    \/ t.split_dir = "Horizontal" /\ dir = "Left" /\ ~t.a_active

----------------------------------------------------------------------------
(* C11: nav(Up) or nav(Down) on a Horizontal split, and nav(Left) or       *)
(* nav(Right) on a Vertical split, returns what the nav of the active      *)
(* child returns, calls nothing in the inactive child, and leaves the      *)
(* active pointer of that split (and the inactive child) as they were.     *)
C11_OffAxisNavDelegates ==
    (NavRan /\ prev.kind = "Split" /\ OffAxis(prev, LastCmd.dir)) =>
        /\ out.ret = nav(ActiveChild(prev), LastCmd.dir).ret
        /\ <<ActiveStep(prev)>> \in out.calls
        /\ \A p \in out.calls : p = <<>> \/ p[1] = ActiveStep(prev)
        /\ root.kind = "Split" /\ root.a_active = prev.a_active
        /\ InactiveChild(root) = InactiveChild(prev)
        /\ ActiveChild(root) = nav(ActiveChild(prev), LastCmd.dir).self

\* nav(Down) on a Horizontal split whose active child, a Vertical split,
\* moved its own focus and answered true
C11_Witness ==
    /\ NavRan /\ LastCmd.dir = "Down"
    /\ prev.kind = "Split" /\ prev.split_dir = "Horizontal" /\ prev.a_active
    /\ prev.a.kind = "Split" /\ prev.a.split_dir = "Vertical"
    /\ prev.a.a_active /\ ~root.a.a_active
    /\ out.ret = TRUE /\ root.a_active

----------------------------------------------------------------------------
\* the leaves of t that are not Empty, from left to right
RECURSIVE NonEmptyLeaves(_), NonEmptyLeavesOfTabs(_, _)
NonEmptyLeaves(t) ==
    CASE t.kind = "Split" -> NonEmptyLeaves(t.a) \o NonEmptyLeaves(t.b)
      [] t.kind = "Tabbed" -> NonEmptyLeavesOfTabs(t.tabs, 1)
      [] OTHER -> IF t.kind = "Empty" THEN <<>> ELSE <<t>>

NonEmptyLeavesOfTabs(tabs, i) ==
    IF i > Len(tabs) THEN <<>>
    ELSE NonEmptyLeaves(tabs[i]) \o NonEmptyLeavesOfTabs(tabs, i + 1)

\* the same, leaving out the focused leaf
RECURSIVE UnfocusedLeaves(_), UnfocusedLeavesOfTabs(_, _, _)
UnfocusedLeaves(t) ==
    CASE t.kind = "Split" ->
           IF t.a_active
           THEN UnfocusedLeaves(t.a) \o NonEmptyLeaves(t.b)
           ELSE NonEmptyLeaves(t.a) \o UnfocusedLeaves(t.b)
      [] t.kind = "Tabbed" -> UnfocusedLeavesOfTabs(t.tabs, t.active + 1, 1)
      [] OTHER -> <<>>

UnfocusedLeavesOfTabs(tabs, act, i) ==
    IF i > Len(tabs) THEN <<>>
    ELSE (IF i = act THEN UnfocusedLeaves(tabs[i]) ELSE NonEmptyLeaves(tabs[i]))
             \o UnfocusedLeavesOfTabs(tabs, act, i + 1)

\* the active child of a container
ActivePane(t) == IF t.kind = "Split" THEN ActiveChild(t) ELSE ActiveTab(t)

\* the active child of t is a Split that close dissolves into its other child
ActiveSplitDissolves(t) ==
    /\ t.kind \in {"Split", "Tabbed"}
    /\ t.kind = "Tabbed" => ActiveTab(t).kind # "Empty"
    /\ ActivePane(t).kind = "Split"
    /\ close(ActivePane(t)).ck = "Replace"

(* C12: whatever Close throws away besides the focused leaf is an Empty    *)
(* leaf: the leaves that are not Empty are, after a Close, those of before *)
(* without the focused one, in the same order; and a Split that is         *)
(* replaced by its surviving child (at the root or one level below it)     *)
(* leaves exactly that child, unchanged, in its place.                     *)
C12_CloseDiscardsOnlyEmpty ==
    CloseRan =>
        /\ NonEmptyLeaves(root) = UnfocusedLeaves(prev)
        /\ (prev.kind = "Split" /\ out.ret = "Replace") =>
               root = InactiveChild(prev)
        /\ ActiveSplitDissolves(prev) =>
               /\ root.kind = prev.kind
               /\ ActivePane(root) = InactiveChild(ActivePane(prev))

\* a Split below the root, with an Empty active child, was replaced by its
\* other child, a File, next to a Split root's other File
C12_Witness ==
    /\ CloseRan /\ out.ret = "Done"
    /\ prev.kind = "Split" /\ ActiveChild(prev).kind = "Split"
    /\ ActiveChild(ActiveChild(prev)) = EmptyBuffer
    /\ InactiveChild(ActiveChild(prev)).kind = "File"
    /\ InactiveChild(prev).kind = "File"
    /\ ActiveChild(root) = InactiveChild(ActiveChild(prev))
    /\ Len(NonEmptyLeaves(root)) = 2

----------------------------------------------------------------------------
\* t, a Split, with x in the slot of its active child
WithActiveChild(t, x) == IF t.a_active THEN [t EXCEPT !.a = x] ELSE [t EXCEPT !.b = x]

(* C13: the table of Split close.  With two Empty leaves as children the   *)
(* Split returns This and closes nothing.  Otherwise only the active child *)
(* is closed: on Done the Split returns Done; on This it returns           *)
(* Replace(other child) when the closed child is an Empty leaf, and else   *)
(* puts an Empty leaf in the slot and returns Done; on Replace(r) it puts  *)
(* r in the slot and returns Done.                                         *)
C13_SplitCloseTable ==
    (CloseRan /\ prev.kind = "Split") =>
        LET c == close(ActiveChild(prev))
        IN IF prev.a = EmptyBuffer /\ prev.b = EmptyBuffer
           THEN out.ret = "This" /\ out.calls = <<>> /\ root = EmptyBuffer
           ELSE /\ out.calls = close_file(ActiveChild(prev))
                /\ c.ck = "Done" =>
                       /\ out.ret = "Done"
                       /\ root = WithActiveChild(prev, c.self)
                /\ (c.ck = "This" /\ ActiveChild(prev).kind = "Empty") =>
                       /\ out.ret = "Replace"
                       /\ root = InactiveChild(prev)
                /\ (c.ck = "This" /\ ActiveChild(prev).kind # "Empty") =>
                       /\ out.ret = "Done"
                       /\ root = WithActiveChild(prev, EmptyBuffer)
                /\ c.ck = "Replace" =>
                       /\ out.ret = "Done"
                       /\ root = WithActiveChild(prev, c.r)

\* the first child, a Split with its second child active and Empty, handed
\* up its first child in Replace and the root Split installed it
C13_Witness ==
    /\ CloseRan /\ prev.kind = "Split" /\ prev.a_active
    /\ prev.a.kind = "Split" /\ ~prev.a.a_active
    /\ close(prev.a).ck = "Replace" /\ close(prev.a).r = prev.a.a
    /\ out.ret = "Done" /\ root.a = close(prev.a).r /\ root.b = prev.b

----------------------------------------------------------------------------
\* tabs2 is tabs without its entry i
IsWithoutEntry(tabs2, tabs, i) ==
    /\ Len(tabs2) = Len(tabs) - 1
    /\ \A j \in 1..Len(tabs2) : tabs2[j] = IF j < i THEN tabs[j] ELSE tabs[j + 1]

\* t, a Tabbed, with x in the slot of its active tab
WithActiveTab(t, x) == [t EXCEPT !.tabs[t.active + 1] = x]

(* C14: the table of Tabbed close.  An active tab that is an Empty leaf is *)
(* taken out of the list and the active index goes down by one unless it   *)
(* is 0; the result is This when no tab is left and Done otherwise, the    *)
(* index then being below the number of tabs.  An active tab that is not   *)
(* empty is closed and the result is Done: on This an Empty leaf is put in *)
(* the slot, on Replace(r) r is, on Done the slot keeps the closed tab.    *)
C14_TabbedCloseTable ==
    (CloseRan /\ prev.kind = "Tabbed") =>
        LET c == close(ActiveTab(prev))
        IN IF ActiveTab(prev).kind = "Empty"
           THEN /\ out.calls = <<>>
                /\ out.ret = IF Len(prev.tabs) = 1 THEN "This" ELSE "Done"
                /\ Len(prev.tabs) = 1 => root = EmptyBuffer
                /\ Len(prev.tabs) > 1 =>
                       /\ root.kind = "Tabbed" /\ root.vars = prev.vars
                       /\ IsWithoutEntry(root.tabs, prev.tabs, prev.active + 1)
                       /\ root.active =
                              IF prev.active = 0 THEN 0 ELSE prev.active - 1
                       /\ root.active < Len(root.tabs)
           ELSE /\ out.ret = "Done"
                /\ out.calls = close_file(ActiveTab(prev))
                /\ c.ck = "This" => root = WithActiveTab(prev, EmptyBuffer)
                /\ c.ck = "Replace" => root = WithActiveTab(prev, c.r)
                /\ c.ck = "Done" => root = WithActiveTab(prev, c.self)

\* the second of two tabs, a Split, handed up a File in Replace and the
\* Tabbed root put it in that tab
C14_Witness ==
    /\ CloseRan /\ prev.kind = "Tabbed" /\ prev.active = 1
    /\ ActiveTab(prev).kind = "Split"
    /\ close(ActiveTab(prev)).ck = "Replace"
    /\ out.ret = "Done"
    /\ ActiveTab(root).kind = "File" /\ root.active = 1
    /\ root.tabs[1] = prev.tabs[1]

----------------------------------------------------------------------------
----------------------------------------------------------------------------
(* C16: set_focused(candidate) on a Split or Tabbed pane returns false.    *)
(* The slot of the active child holds the candidate afterwards exactly     *)
(* when the set_focused of that child returned true (and else the child,   *)
(* as its own set_focused left it); the other children, the direction and  *)
(* the measurement of a Split and the active pointer or index are as       *)
(* before.                                                                 *)
C16_ContainerSetFocused ==
    (FocusRan /\ ~IsLeaf(prev)) =>
        LET r == set_focused(ActivePane(prev), AddsOf(LastCmd))
            slot == IF r.ret THEN AddsOf(LastCmd) ELSE r.self
        IN /\ out.ret = FALSE
           /\ root.kind = prev.kind
           /\ ActivePane(root) = slot
           /\ prev.kind = "Split" =>
                  /\ root = WithActiveChild(prev, slot)
                  /\ InactiveChild(root) = InactiveChild(prev)
                  /\ root.split_dir = prev.split_dir
                  /\ root.split = prev.split
                  /\ root.a_active = prev.a_active
           /\ prev.kind = "Tabbed" =>
                  /\ root = WithActiveTab(prev, slot)
                  /\ root.active = prev.active
                  /\ Len(root.tabs) = Len(prev.tabs)
                  /\ \A i \in 1..Len(prev.tabs) :
                         i # prev.active + 1 => root.tabs[i] = prev.tabs[i]

\* Open on a Split whose active child, a Tabbed pane, took the new File
\* into its Empty tab and answered false: the Split kept that Tabbed pane
C16_Witness ==
    /\ FocusRan /\ LastCmd.cmd = "Open"
    /\ prev.kind = "Split" /\ ~prev.a_active /\ prev.b.kind = "Tabbed"
    /\ ActiveTab(prev.b) = EmptyBuffer
    /\ prev.a.kind = "File"
    /\ out.ret = FALSE
    /\ root.b.kind = "Tabbed" /\ ActiveTab(root.b) = AddsOf(LastCmd)
    /\ root.a = prev.a

----------------------------------------------------------------------------
(* C17: when the direction runs along the axis of a Split and away from    *)
(* its active child, the Split calls the nav of the active child, moves    *)
(* its own active pointer to the other child only if that call returned    *)
(* false, and returns true either way.                                     *)
C17_NavAwaySwitchesOnRefusal ==
    (NavRan /\ prev.kind = "Split" /\ AlongAndAway(prev, LastCmd.dir)) =>
        LET c == nav(ActiveChild(prev), LastCmd.dir)
        IN /\ out.ret = TRUE
           /\ <<ActiveStep(prev)>> \in out.calls
           /\ root.kind = "Split"
           /\ root.a_active = IF c.ret THEN prev.a_active ELSE ~prev.a_active
           /\ [root EXCEPT !.a_active = prev.a_active] =
                  WithActiveChild(prev, c.self)

\* nav(Down) on a Vertical split whose first child, a Vertical split too,
\* moved its own focus: the outer pointer stayed on the first child
C17_Witness ==
    /\ NavRan /\ LastCmd.dir = "Down"
    /\ prev.kind = "Split" /\ prev.split_dir = "Vertical" /\ prev.a_active
    /\ prev.a.kind = "Split" /\ prev.a.split_dir = "Vertical"
    /\ prev.a.a_active /\ ~root.a.a_active
    /\ out.ret = TRUE /\ root.a_active

----------------------------------------------------------------------------
(* C18: nav on a Tabbed pane returns what the nav of its active tab        *)
(* returns and leaves the tab as that call left it, so that a Split in the *)
(* active tab moves its focus and the Tabbed pane answers true; the active *)
(* index of the Tabbed pane stays.                                         *)
C18_TabbedNavDelegates ==
    (NavRan /\ prev.kind = "Tabbed") =>
        LET c == nav(ActiveTab(prev), LastCmd.dir)
        IN /\ out.ret = c.ret
           /\ root = WithActiveTab(prev, c.self)
           /\ root.active = prev.active

----------------------------------------------------------------------------
\* t with the active pointer of every Split set to its first child
RECURSIVE Unpointed(_)
Unpointed(t) ==
    CASE t.kind = "Split" ->
           [t EXCEPT !.a = Unpointed(t.a), !.b = Unpointed(t.b),
                     !.a_active = TRUE]
      [] t.kind = "Tabbed" ->
           [t EXCEPT !.tabs = [i \in 1..Len(t.tabs) |-> Unpointed(t.tabs[i])]]
      [] OTHER -> t

\* the number of Splits whose active pointer differs between t and u, two
\* trees that are equal but for these pointers
RECURSIVE Flips(_, _), FlipsOfTabs(_, _, _)
Flips(t, u) ==
    CASE t.kind = "Split" ->
           (IF t.a_active = u.a_active THEN 0 ELSE 1)
               + Flips(t.a, u.a) + Flips(t.b, u.b)
      [] t.kind = "Tabbed" -> FlipsOfTabs(t.tabs, u.tabs, 1)
      [] OTHER -> 0

FlipsOfTabs(tabs, ubs, i) ==
    IF i > Len(tabs) THEN 0
    ELSE Flips(tabs[i], ubs[i]) + FlipsOfTabs(tabs, ubs, i + 1)

\* the direction runs along the axis of the split and toward its active
\* child
AlongAndToward(t, dir) ==
    \/ t.split_dir = "Vertical" /\ dir = "Down" /\ ~t.a_active
    \/ t.split_dir = "Vertical" /\ dir = "Up" /\ t.a_active
    \/ t.split_dir = "Horizontal" /\ dir = "Right" /\ ~t.a_active
    \/ t.split_dir = "Horizontal" /\ dir = "Left" /\ t.a_active

(* C19: nav changes nothing of a tree but active pointers of Splits: none  *)
(* when it returns false, that of exactly one Split when it returns true.  *)
(* On a leaf it returns false, and a move toward the active child of a     *)
(* Split along its axis leaves the pointer of that Split as it was.        *)
C19_NavFlipsAtMostOnePointer ==
    NavRan =>
        /\ Unpointed(root) = Unpointed(prev)
        /\ out.ret = FALSE => root = prev
        /\ out.ret = TRUE => Flips(prev, root) = 1
        /\ IsLeaf(prev) => out.ret = FALSE
        /\ (prev.kind = "Split" /\ AlongAndToward(prev, LastCmd.dir)) =>
               root.a_active = prev.a_active

\* nav(Right) on a Horizontal split with its second child active: that
\* child, a Horizontal split, moved its focus, the only pointer to change
C19_Witness ==
    /\ NavRan /\ LastCmd.dir = "Right"
    /\ prev.kind = "Split" /\ prev.split_dir = "Horizontal" /\ ~prev.a_active
    /\ prev.b.kind = "Split" /\ prev.b.split_dir = "Horizontal"
    /\ prev.b.a_active /\ ~root.b.a_active
    /\ out.ret = TRUE /\ ~root.a_active /\ Flips(prev, root) = 1

----------------------------------------------------------------------------
MouseRan == Len(trace) >= 1 /\ LastCmd.cmd = "Mouse"

Inside(pos, r) ==
    /\ r.x <= pos.x /\ pos.x < r.x + r.w
    /\ r.y <= pos.y /\ pos.y < r.y + r.h

\* the path from t to its focused leaf
RECURSIVE FocusedPath(_)
FocusedPath(t) ==
    CASE t.kind = "Split" -> <<ActiveStep(t)>> \o FocusedPath(ActiveChild(t))
      [] t.kind = "Tabbed" -> <<t.active>> \o FocusedPath(ActiveTab(t))
      [] OTHER -> <<>>

(* C20: after a Mouse event on nested Splits drawn in the window, a leaf   *)
(* whose drawn rectangle holds the pointer is the focused leaf, and the    *)
(* event went to that leaf and to no other.                                *)
C20_MouseFocusesDrawnLeaf ==
    MouseRan =>
        \A d \in draw_conts(prev, Rect(0, 0, LastCmd.size.x, LastCmd.size.y)) :
            Inside(LastCmd.pos, d.coords) =>
                /\ FocusedPath(root) = d.pane
                /\ { c.pane : c \in out.calls } = {d.pane}

----------------------------------------------------------------------------
EventRan == Len(trace) >= 1 /\ LastCmd.cmd = "Event"

\* Ctrl+Up, Ctrl+Down, Ctrl+Left or Ctrl+Right, no other modifier
CtrlArrow(ev) ==
    /\ ev.ev = "Nav" /\ ev.nav \in {"Up", "Down", "Left", "Right"}
    /\ ev.mods.ctrl /\ ~ev.mods.alt /\ ~ev.mods.shift

(* C21: a Split hands an event that is neither a Mouse event nor           *)
(* Ctrl+arrow to its active child and to nothing in the inactive child,    *)
(* and neither the inactive child nor the active pointer changes; a        *)
(* Ctrl+arrow event makes the Split call its own nav and reaches the       *)
(* event_process of no pane below it.                                      *)
C21_SplitEventRouting ==
    (EventRan /\ prev.kind = "Split") =>
        IF CtrlArrow(LastCmd.ev)
        THEN /\ out.calls = {<<>>}
             /\ <<>> \in out.ret
             /\ root = nav(prev, LastCmd.ev.nav).self
        ELSE /\ <<ActiveStep(prev)>> \in out.calls
             /\ \A p \in out.calls : p = <<>> \/ p[1] = ActiveStep(prev)
             /\ out.ret = {}
             /\ root.kind = "Split" /\ root.a_active = prev.a_active
             /\ InactiveChild(root) = InactiveChild(prev)

\* Ctrl+Shift+Down passed through a Vertical split and the Split below it
\* to a leaf, and no focus moved
C21_Witness ==
    /\ EventRan /\ LastCmd.ev = NavEv(Mods(TRUE, FALSE, TRUE), "Down")
    /\ prev.kind = "Split" /\ prev.split_dir = "Vertical" /\ prev.a_active
    /\ prev.a.kind = "Split" /\ <<"a", ActiveStep(prev.a)>> \in out.calls
    /\ root = prev

----------------------------------------------------------------------------
(* C22: every event handed to the pane tree is followed by an update       *)
(* before the next event is handed to it: at no time have two events been  *)
(* applied since the last update.                                          *)
C22_UpdateBetweenEvents == moves <= 1

----------------------------------------------------------------------------
(* C23: when update has returned, whatever the size it was given, the      *)
(* cursor of the File pane is inside the content: its row is the index of  *)
(* a line and its column is at most the length of that line.               *)
C23_CursorInsideContent ==
    phase.pc = "updated" =>
        /\ 0 <= file.pos.y /\ file.pos.y < Len(file.data)
        /\ 0 <= file.pos.x /\ file.pos.x <= Len(file.data[file.pos.y + 1])

----------------------------------------------------------------------------
(* C24: once the first update has loaded the File pane, its content is     *)
(* never empty, whatever the read gave, so the rows 0 .. N-1 the cursor    *)
(* is clamped into exist.                                                  *)
C24_ContentNeverEmpty == file.cached => Len(file.data) >= 1

----------------------------------------------------------------------------
(* C25 as stated: one update moves scroll by at most one line, however     *)
(* far the cursor row is outside the window.                               *)
C25_ScrollOneLinePerUpdate ==
    phase.pc = "updated" =>
        /\ file.scroll - phase.scroll <= 1
        /\ phase.scroll - file.scroll <= 1

(* C25, amended: one update moves scroll as far as it takes.  An update    *)
(* of a pane narrower than 4 columns leaves scroll alone; any other update *)
(* that returns leaves the cursor row no lower than the last row of the    *)
(* window, unless scroll has reached the number of lines.                  *)
C25_ScrollMovesUntilVisible ==
    phase.pc = "updated" =>
        IF phase.size.x < 4
        THEN file.scroll = phase.scroll
        ELSE \/ file.pos.y - file.scroll <= file.height - 1
             \/ file.scroll >= Len(file.data)

\* one update took scroll down two lines or more, to a cursor three rows
\* below a window of one row or more
C25_Witness ==
    /\ phase.pc = "updated" /\ file.height >= 1
    /\ file.scroll - phase.scroll >= 2
    /\ file.pos.y - file.scroll = file.height - 1

----------------------------------------------------------------------------
(* C26 as stated: the file of a File pane is read once in the life of the  *)
(* pane, by the first update: it has not been read before that update and  *)
(* has been read once ever after.                                          *)
C26_ReadOnceByFirstUpdate ==
    phase.pc # "start" => phase.reads = (IF file.cached THEN 1 ELSE 0)

(* C26, amended: the file is read once by Command::Open, which creates the *)
(* pane, and once more by the first update of the pane, and by nothing     *)
(* else: one read before the first update, two ever after.                 *)
C26_ReadByOpenAndFirstUpdate ==
    phase.pc # "start" => phase.reads = (IF file.cached THEN 2 ELSE 1)

\* a second update of the pane has returned, after events, and the file has
\* been read twice
C26_Witness ==
    /\ phase.pc = "updated" /\ file.height >= 1 /\ file.pos.y >= 1
    /\ phase.reads = 2

----------------------------------------------------------------------------
(* C27: when update of a Hex pane has returned, the cursor column is in    *)
(* 0..15 and the cursor is on a byte that was loaded: 16 * row + column is *)
(* less than the number of bytes.                                          *)
C27_HexCursorOnByte ==
    phase.pc = "updated" =>
        /\ 0 <= file.pos.x /\ file.pos.x <= 15
        /\ 16 * file.pos.y + file.pos.x < Len(file.data)

----------------------------------------------------------------------------
(* C28: update of a File pane whose content is loaded, with one line or    *)
(* more, returns normally for every size and every cursor position: it     *)
(* never aborts.                                                           *)
C28_UpdateCompletes ==
    (file.cached /\ Len(file.data) >= 1) => phase.pc # "aborted"

----------------------------------------------------------------------------
GetValueRan == Len(trace) >= 1 /\ LastCmd.cmd = "get_value"

(* C30: get_value(max, char_size) is an offset in 0..max: min(v *          *)
(* char_size, max) for Chars(v), min(v, max) for Pixels(v), max less those *)
(* for NegChars(v) and NegPixels(v), and the integer part of max * p for   *)
(* Percent(p) with 0 <= p <= 1.                                            *)
C30_GetValueInSpan ==
    GetValueRan =>
        LET m == LastCmd.m
            max == LastCmd.max
            cs == LastCmd.char_size
        IN /\ 0 <= out.ret /\ out.ret <= max
           /\ m.m = "Chars" => out.ret = Min(m.val * cs, max)
           /\ m.m = "Pixels" => out.ret = Min(m.val, max)
           /\ m.m = "NegChars" => out.ret = max - Min(m.val * cs, max)
           /\ m.m = "NegPixels" => out.ret = max - Min(m.val, max)
           /\ m.m = "Percent" => out.ret = (max * (m.pc \div 25)) \div 4

----------------------------------------------------------------------------
UpdateRan == Len(trace) >= 1 /\ LastCmd.cmd = "update"

\* the span of a size, and of a region, along the axis of a Split
SpanOf(t, size) == IF t.split_dir = "Vertical" THEN size.y ELSE size.x
SpanOfRect(t, r) == IF t.split_dir = "Vertical" THEN r.h ELSE r.w

(* C29: update of a Split with a span of 0 or more gives its first child   *)
(* the offset the split resolves to and its second child the span less the *)
(* offset less 1; neither is negative, the two and the divider add up to   *)
(* the span, and draw gives the two children regions of the same spans.    *)
C29_SplitSubSpans ==
    UpdateRan =>
        LET t == LastCmd.t
            span == SpanOf(t, LastCmd.size)
            offset == (span * 50) \div 100
            first == SpanOf(t, out.ret.a)
            second == SpanOf(t, out.ret.b)
        IN /\ first = offset
           /\ second = span - offset - 1
           /\ first >= 0 /\ second >= 0
           /\ first + 1 + second = span
           /\ \A d \in out.calls :
                 SpanOfRect(t, d.coords) = (IF d.pane = <<"a">> THEN first ELSE second)

----------------------------------------------------------------------------
(* C31: for every colour table and every colour, get_color returns: every  *)
(* call of it ends, with the concrete colour at the end of the chain of    *)
(* links or with None.                                                     *)
C31_GetColorReturns == <>(look.pc = "returned")

----------------------------------------------------------------------------
OpenRan == Len(trace) >= 1 /\ LastCmd.cmd = "Open"

(* C32: when the Open command has told the language server that a path    *)
(* was opened, it has put a File pane for that path in the tree and that   *)
(* pane is the focused leaf; an Open that leaves the tree as it was tells  *)
(* the server nothing.                                                     *)
C32_OpenNotifiesInsertedPane ==
    (OpenRan /\ out.calls # <<>>) =>
        /\ root # prev
        /\ FocusedLeaf(root) = FileBuffer(LastCmd.path)

----------------------------------------------------------------------------
\* the step is an event that the File pane handled without a panic
EventStep == trace' # trace /\ phase'.pc = "events"
EventOf(t) == t[Len(t)].ev

(* C33: an event changes the content lines of a File pane only in Insert   *)
(* mode and only if it is a Key, Enter or BackSpace, so no event changes   *)
(* them in Normal mode; an event changes the mode only if it is the key i  *)
(* in Normal mode or Escape in Insert mode.                                *)
C33_NormalModeKeepsContent ==
    [][EventStep =>
         LET ev == EventOf(trace')
         IN /\ file'.data # file.data =>
                  /\ file.mode = "Insert"
                  /\ \/ ev.ev = "Key"
                     \/ ev.ev = "Nav" /\ ev.nav \in {"Enter", "BackSpace"}
            /\ file'.mode # file.mode =>
                  \/ /\ file.mode = "Normal" /\ file'.mode = "Insert"
                     /\ ev.ev = "Key" /\ ev.c = "i"
                  \/ /\ file.mode = "Insert" /\ file'.mode = "Normal"
                     /\ ev.ev = "Nav" /\ ev.nav = "Escape"]_vars

\* in Normal mode the key x, then the key i, were handled and the content
\* is as it was; the pane is now in Insert mode
C33_Witness ==
    /\ Len(trace) = 2 /\ phase.pc = "events"
    /\ trace[1].ev = KeyEv(NoMods, "x") /\ trace[2].ev = KeyEv(NoMods, "i")
    /\ file.mode = "Insert"
    /\ file.data = << <<"a", "b">>, <<"c">> >>

----------------------------------------------------------------------------
\* the pane before the last two events
TwoBack == out.calls[Len(trace) - 1]

\* the cursor is on a line and within it, or just past its end
ValidCursor(f) ==
    /\ 0 <= f.pos.y /\ f.pos.y < Len(f.data)
    /\ 0 <= f.pos.x /\ f.pos.x <= Len(f.data[f.pos.y + 1])

\* the last two events are Enter, or a key, and then BackSpace, in Insert
\* mode from a valid cursor
UndoneEdit ==
    /\ Len(trace) >= 2
    /\ TwoBack.mode = "Insert" /\ ValidCursor(TwoBack)
    /\ \/ trace[Len(trace) - 1].ev = NavEv(NoMods, "Enter")
       \/ /\ trace[Len(trace) - 1].ev.ev = "Key"
          /\ trace[Len(trace) - 1].ev.mods = NoMods
    /\ trace[Len(trace)].ev = NavEv(NoMods, "BackSpace")

C35_SpawnLspReturns == <>(lsp.caller = "returned")

\* C36: when the server starts and spawn_lsp returns Ok, the server has been
\* sent the initialize request and then the initialized notification: the
\* handshake is not skipped because the wait ended with no writer
HandshakeSent ==
    /\ Len(lsp.wire) >= 2
    /\ lsp.wire[1] = Request(0, "initialize", None)
    /\ lsp.wire[2] = Notification("initialized", None)

C36_HandshakeNotSkipped ==
    (lsp.starts /\ lsp.caller = "returned" /\ lsp.spawned = "Ok")
        => HandshakeSent

\* C37: open_file, save_file and close_file called with no writer return Ok,
\* write nothing and leave last_request alone; the ids handed out are
\* 0, 1, 2, ... and the requests written carry ids that grow
C37_NoWriterNoIds ==
    /\ (lsp.last.op # "none" /\ lsp.last.request_writer = None)
           => /\ lsp.last.ret = "Ok"
              /\ lsp.wire = lsp.last.wire
              /\ lsp.last_request = lsp.last.last_request
    /\ \A i \in 1..Len(lsp.ids) : lsp.ids[i] = i - 1
    /\ lsp.last_request = Len(lsp.ids)
    /\ \A i, j \in 1..Len(lsp.wire) :
           (i < j /\ lsp.wire[i].kind = "request"
                  /\ lsp.wire[j].kind = "request")
               => lsp.wire[i].id[1] < lsp.wire[j].id[1]

C37_Witness ==
    /\ lsp.silent
    /\ lsp.last.op # "none"
    /\ lsp.last.request_writer # None
    /\ Len(lsp.ids) >= 2

====
